---- MODULE Spec2Model ----
(***************************************************************************)
(* Model of the error correlation and scoring engine of MonkeyBrain        *)
(* (src/src/analyze.py, class ListStyleMonkeyAnalyzer): extraction of      *)
(* crash / ANR / exception records from a Monkey log, the noise filter,    *)
(* deduplication by stack signature, severity scoring and the chain        *)
(* correlation pass.                                                       *)
(*                                                                         *)
(* Text is modelled line by line.  A log line is one of the strings of     *)
(* LogLines; what the code asks of a line (a substring test, a regular     *)
(* expression) is an operator giving the value that Python expression has  *)
(* on that line.  A multi-line text is a sequence of lines.  A timestamp   *)
(* is a record [fmt, sec]: sec counts the seconds since 2024-01-01         *)
(* 10:00:00, fmt tells "%Y-%m-%d %H:%M:%S" ("local") from the ISO form     *)
(* "%Y-%m-%dT%H:%M:%S.000Z" ("iso") and from a text in the local pattern   *)
(* that is no date, "2024-13-01 10:00:SS" ("invalid").  An optional field  *)
(* of a Python dict is a sequence of length 0 (absent) or 1 (present).     *)
(***************************************************************************)
EXTENDS Integers, Sequences, FiniteSets, TLC

(***************************************************************************)
(* Bounds of the model.                                                    *)
(***************************************************************************)
\* longest log (number of lines) loaded by load_monkey_log
MaxLogLen == 4
\* longest list of records handed to deduplicate_errors in SpecRecords
MaxRecords == 3
\* largest occurrence count of a deduplicated record in SpecScore
MaxOccurrences == 11
\* most stack-frame lines that follow the ANR marker in a log of SpecLong
MaxFrames == 22
\* longest log of trigger and filler lines in SpecLong
MaxWindowLog == 7
\* most context lines of the record analysed in SpecRootCause
MaxRootLines == 3
\* most copies of one record in a catalogue of SpecStability
MaxRun == 11
\* most copies of one record in a catalogue of SpecSave
MaxSavedRun == 2
\* the monkey_logs_<timestamp> names a working directory can hold in SpecBatch
MaxFolders == 3
\* longest log of SpecRun
MaxRunLog == 2
\* seconds the wall clock may advance during one run
MaxTick == 1
\* the wall clock when the run starts (seconds since 2024-01-01 10:00:00)
NowStart == 10

(***************************************************************************)
(* The lines a log is made of.                                             *)
(***************************************************************************)
LCrash    == "// CRASH: com.ex.app (pid 1)"
LCrashMid == "I/Monkey: // CRASH: com.ex.app (pid 1)"
LAnr      == "// NOT RESPONDING: com.ex.app:svc (pid 2)"
LNpe      == "// java.lang.NullPointerException"
LFrame    == "  at com.ex.app.MainActivity.run(M.java:7)"
LNoise    == "// at android.app.Instrumentation.run(I.java:1)"
LAbort    == "** Monkey aborted due to error."
LBlank    == "  "
LFatal    == "2024-01-01 10:00:07 FATAL com.ex.app IllegalStateException"

LogLines == {LCrash, LCrashMid, LAnr, LNpe, LFrame, LNoise, LAbort, LBlank, LFatal}

\* lines that occur in the contexts of SpecRootCause only
LThird    == "at okhttp3.internal.http.run(H.java:9)"
LLateinit == "lateinit property adapter has not been initialized"
LOom      == "// java.lang.OutOfMemoryError"
LRes      == "// Resources$NotFoundException"
LCme      == "// java.util.ConcurrentModificationException"
LVar      == "// variable count is stale"

\* comment lines that occur in the contexts of SpecRelated only
LLateinitNote == "// lateinit property adapter has not been initialized"
LLateinitView == "// lateinit property adapterView has not been initialized"

\* LFrame.strip() and LBlank.strip(); every other line is its own strip()
LFrameS == "at com.ex.app.MainActivity.run(M.java:7)"
LEmpty  == ""

ProcApp == "com.ex.app"
ProcSvc == "com.ex.app:svc"
ProcJava == "java.lang"
ProcAndroid == "android.app"
ProcJavaUtil == "java.util"
ProcOkhttp == "okhttp3.internal.http.run"
\* process names that occur in no line of LogLines, for the record pools
ProcLogin == "com.ex.login"
ProcMonkey == "flipjava.io.monkey"
\* the literal returned by _extract_process_from_context when nothing matches
UnknownProcess == "unknown-process"

(***************************************************************************)
(* Lexical facts of the lines: the value of the quoted Python expression.  *)
(* The facts asked of the stored context of a record are given for the     *)
(* lines of the catalogue and for the cut lines context[:300] can leave at *)
(* the end of an exception context: line[:n] of a line of LogLines.        *)
(***************************************************************************)
\* s == line[:n] for some n >= least: line cut by a slice after at least `least`
\* characters (the whole line included)
IsCutOf(s, line, least) ==
    /\ Len(s) >= least
    /\ Len(s) <= Len(line)
    /\ SubSeq(line, 1, Len(s)) = s

\* line.strip()
Strip(s) == IF s = LFrame THEN LFrameS ELSE IF s = LBlank THEN LEmpty ELSE s

\* not line.strip()
IsBlank(s) == s \in {LBlank, LEmpty}

\* line.strip().startswith('//')
IsComment(s) ==
    s \in {LCrash, LAnr, LNpe, LNoise, LOom, LRes, LCme, LVar, LLateinitNote, LLateinitView}

\* line.strip().startswith('at ')
IsFrameLine(s) == s \in {LFrame, LFrameS, LThird}

\* line.strip().startswith('**')
IsStars(s) == s = LAbort

\* 'Exception' in line or 'Error' in line
HasExceptionOrError(s) == s \in {LNpe, LFatal, LOom, LRes, LCme}

\* any(keyword in line for keyword in ['Exception','Error','Fatal','FAILED'])
HasExceptionKeyword(s) == s \in {LNpe, LFatal, LOom, LRes, LCme}

\* re.findall(r'// CRASH: (.+?) \(pid (\d+)\)', line): <<process, pid>> pairs
CrashMatches(s) == IF s \in {LCrash, LCrashMid} THEN << <<ProcApp, "1">> >> ELSE << >>

\* re.findall(r'// NOT RESPONDING: (.+?) \(pid (\d+)\)', line)
AnrMatches(s) == IF s = LAnr THEN << <<ProcSvc, "2">> >> ELSE << >>

\* f"CRASH: {process_name}" in line
HasCrashKeyword(s, p) == p = ProcApp /\ s \in {LCrash, LCrashMid}

\* f"NOT RESPONDING: {process_name}" in line
HasAnrKeyword(s, p) == p \in {ProcApp, ProcSvc} /\ s = LAnr

\* process_name in line
HasProcess(s, p) ==
    \/ p = ProcApp /\ s \in {LCrash, LCrashMid, LAnr, LFrame, LFrameS, LFatal}
    \/ p = ProcSvc /\ s = LAnr
    \/ p = ProcJava /\ s \in {LNpe, LOom}
    \/ p = ProcJavaUtil /\ s = LCme
    \/ p = ProcOkhttp /\ s = LThird
    \/ p = ProcAndroid /\ s = LNoise

\* any(pattern in text for pattern in self.monkey_internal_patterns)
HasMonkeyPattern(s) == s = LNoise \/ IsCutOf(s, LNoise, 33)

\* re.search(r'(\d{4}-\d{2}-\d{2} \d{2}:\d{2}:\d{2})', line): seconds, as an option
LineTimestamp(s) == IF s = LFatal THEN <<7>> ELSE << >>

\* re.search(r'([a-z][a-z0-9_]*(\.[a-z][a-z0-9_]*)+)', line), as an option
LinePackage(s) ==
    IF s \in {LCrash, LCrashMid, LAnr, LFrame, LFrameS, LFatal} THEN <<ProcApp>>
    ELSE IF s \in {LNpe, LOom} THEN <<ProcJava>>
    ELSE IF s = LNoise THEN <<ProcAndroid>>
    ELSE IF s = LCme THEN <<ProcJavaUtil>>
    ELSE IF s = LThird THEN <<ProcOkhttp>>
    ELSE << >>

\* re.findall(r'(\w+Exception|\w+Error)', line)
LineExceptionTypes(s) ==
    IF s = LNpe THEN <<"NullPointerException">>
    ELSE IF s = LFatal THEN <<"IllegalStateException">>
    ELSE IF s = LOom THEN <<"OutOfMemoryError">>
    ELSE IF s = LRes THEN <<"NotFoundException">>
    ELSE IF s = LCme THEN <<"ConcurrentModificationException">>
    ELSE << >>

\* re.findall(r'at ([\w\.$]+\.[\w]+)\(', line)
LineMethods(s) ==
    IF s \in {LFrame, LFrameS} THEN <<"com.ex.app.MainActivity.run">>
    ELSE IF s = LNoise THEN <<"android.app.Instrumentation.run">>
    ELSE IF s = LThird THEN <<"okhttp3.internal.http.run">>
    ELSE IF IsCutOf(s, LFrame, 33) THEN <<"com.ex.app.MainActivity.run">>
    ELSE IF IsCutOf(s, LNoise, 38) THEN <<"android.app.Instrumentation.run">>
    ELSE << >>

\* re.findall(r'at ([\w\.$]+)\.', line): the name up to the last dot the line holds
LineStackClasses(s) ==
    IF s \in {LFrame, LFrameS} THEN <<"com.ex.app.MainActivity">>
    ELSE IF s = LNoise THEN <<"android.app.Instrumentation">>
    ELSE IF s = LThird THEN <<"okhttp3.internal.http">>
    ELSE IF IsCutOf(s, LFrame, 29) THEN <<"com.ex.app.MainActivity">>
    ELSE IF IsCutOf(s, LFrame, 16) THEN <<"com.ex.app">>
    ELSE IF IsCutOf(s, LFrame, 12) THEN <<"com.ex">>
    ELSE IF IsCutOf(s, LFrame, 9) THEN <<"com">>
    ELSE IF IsCutOf(s, LNoise, 34) THEN <<"android.app.Instrumentation">>
    ELSE IF IsCutOf(s, LNoise, 18) THEN <<"android.app">>
    ELSE IF IsCutOf(s, LNoise, 14) THEN <<"android">>
    ELSE << >>

\* the matches in the line of r'Short Msg: (.+?)(?://|$)', r'Long Msg: (.+?)(?://|$)' and
\* r'lateinit property (\w+)': no line carries a Msg field
LineErrorMessages(s) ==
    IF s \in {LLateinit, LLateinitNote} THEN <<"adapter">>
    ELSE IF s = LLateinitView THEN <<"adapterView">>
    ELSE << >>

\* process_name.split('.')
ProcessParts(p) ==
    CASE p = ProcApp -> <<"com", "ex", "app">>
      [] p = ProcSvc -> <<"com", "ex", "app:svc">>
      [] p = ProcJava -> <<"java", "lang">>
      [] p = ProcAndroid -> <<"android", "app">>
      [] p = ProcJavaUtil -> <<"java", "util">>
      [] p = ProcOkhttp -> <<"okhttp3", "internal", "http", "run">>
      [] p = ProcLogin -> <<"com", "ex", "login">>
      [] p = ProcMonkey -> <<"flipjava", "io", "monkey">>
      [] OTHER -> <<p>>

\* process1 in process2, for two different names
ProcessContains(p1, p2) == p1 = ProcApp /\ p2 = ProcSvc

\* len(line)
LineLen(s) == Len(s)

\* line.count(' at ')
LineAtCount(s) ==
    IF s \in {LFrame, LNoise} \/ IsCutOf(s, LFrame, 5) \/ IsCutOf(s, LNoise, 6) THEN 1 ELSE 0

\* line.startswith('at ')
StartsWithAt(s) == s \in {LFrameS, LThird}

\* any(module in line.lower() for module in critical_modules)
HasCriticalModule(s) == s \in {LFrame, LFrameS} \/ IsCutOf(s, LFrame, 28)

\* any(pattern in line.lower() for pattern in blocking_patterns)
HasBlockingPattern(s) == s = LFatal \/ IsCutOf(s, LFatal, 25)

\* any(pattern in line.lower() for pattern in degraded_patterns)
HasDegradedPattern(s) == s = LNpe \/ IsCutOf(s, LNpe, 17)

\* ':' not in process_name.lower()
IsMainProcess(p) == p # ProcSvc

\* any(module in process_name.lower() for module in critical_modules)
ProcessHasCriticalModule(p) == p = ProcLogin

\* any(pattern in process_name for pattern in self.monkey_internal_patterns)
ProcessHasMonkeyPattern(p) == p = ProcMonkey

\* re.findall(r'at ([\w\.$]+)\.(\w+)\(([\w\.]+):(\d+)\)', line): class, method, file, line
LineFrames(s) ==
    IF s \in {LFrame, LFrameS}
    THEN <<[class |-> "com.ex.app.MainActivity", method |-> "run", file |-> "M.java",
            line |-> 7]>>
    ELSE IF s = LNoise
    THEN <<[class |-> "android.app.Instrumentation", method |-> "run", file |-> "I.java",
            line |-> 1]>>
    ELSE IF s = LThird
    THEN <<[class |-> "okhttp3.internal.http", method |-> "run", file |-> "H.java",
            line |-> 9]>>
    ELSE << >>

\* class_path.startswith('android.') or class_path.startswith('java.')
ClassIsSystem(class_path) == class_path = "android.app.Instrumentation"

\* any(lib in class_path for lib in ['okhttp', 'retrofit', 'glide', 'gson', 'kotlinx'])
ClassIsThirdParty(class_path) == class_path = "okhttp3.internal.http"

\* the ids of the patterns of _identify_error_pattern one of whose keywords, lowered,
\* is in line.lower()
LinePatterns(s) ==
    IF s \in {LLateinit, LLateinitNote, LLateinitView} THEN {"UNINITIALIZED_LATEINIT"}
    ELSE IF s = LNpe THEN {"NULL_POINTER"}
    ELSE IF s = LOom THEN {"OUT_OF_MEMORY"}
    ELSE IF s = LRes THEN {"RESOURCE_NOT_FOUND"}
    ELSE IF s = LCme THEN {"CONCURRENT_MODIFICATION"}
    ELSE IF s = LFatal THEN {"LIFECYCLE_ERROR"}
    ELSE {}

\* re.findall(r'Long Msg: (.+?)(?://|$)', line), then the non-empty groups of
\* re.findall(r'property (\w+)|variable (\w+)|method (\w+)', line)
LineSnippets(s) ==
    IF s \in {LLateinit, LLateinitNote} THEN <<"adapter">>
    ELSE IF s = LLateinitView THEN <<"adapterView">>
    ELSE IF s = LVar THEN <<"count">>
    ELSE << >>

(***************************************************************************)
(* Program constants.                                                      *)
(***************************************************************************)
\* max_lines of _extract_context_lines
MaxContextLines == 20
\* a blank line ends a context window or a stack trace once more lines than this are held
MinLinesBeforeBlank == 5
\* the exception extractor's window: lines before the trigger, and the slice end i+5
WindowBefore == 2
WindowEnd == 5
\* context[:300] of an exception record
ContextChars == 300
\* the time window of _is_related_error, in seconds
ChainWindow == 5

(***************************************************************************)
(* Texts and timestamps.                                                   *)
(***************************************************************************)
Max(a, b) == IF a >= b THEN a ELSE b
Min(a, b) == IF a <= b THEN a ELSE b

\* log_text.split('\n') of a text whose lines all end in a newline
SplitLines(log) == log \o <<LEmpty>>

\* "\n".join(lines) == "" (what `if error_section` and `if context_lines` test)
TextIsEmpty(ls) == ls = << >> \/ ls = <<LEmpty>>

\* the index of the first line of a text that passes a test, 0 when there is none;
\* hits[i] tells whether line i passes
FirstIndex(hits) ==
    LET found == {i \in 1..Len(hits) : hits[i]}
    IN  IF found = {} THEN 0 ELSE CHOOSE i \in found : \A j \in found : i <= j

\* the sum of a sequence of numbers
RECURSIVE SumSeq(_)
SumSeq(q) == IF q = << >> THEN 0 ELSE Head(q) + SumSeq(Tail(q))

\* the concatenation of a sequence of sequences
RECURSIVE Flatten(_)
Flatten(ss) == IF ss = << >> THEN << >> ELSE Head(ss) \o Flatten(Tail(ss))

LocalTs(sec) == [fmt |-> "local", sec |-> sec]
IsoTs(sec) == [fmt |-> "iso", sec |-> sec]
InvalidTs(sec) == [fmt |-> "invalid", sec |-> sec]

\* datetime.fromisoformat(timestamp.replace('Z', '+00:00')) returns: it parses the ISO
\* and the local form and raises ValueError on a month 13
IsoParses(ts) == ts.fmt # "invalid"

\* (time2 - time1) returns: both strings parse, and both datetimes are aware (ISO) or
\* both naive (local); the difference of an aware and a naive one raises TypeError
DifferenceIsDefined(ts1, ts2) == IsoParses(ts1) /\ IsoParses(ts2) /\ ts1.fmt = ts2.fmt

\* the place of a timestamp string among those of the model as str compares them, all
\* within one minute: "2024-01-01 10:00:SS" < "2024-01-01T10:00:SS.000Z" <
\* "2024-13-01 10:00:SS", and by the seconds within one form
TimestampOrder(ts) ==
    (IF ts.fmt = "local" THEN 0 ELSE IF ts.fmt = "iso" THEN 1 ELSE 2) * 60 + ts.sec

\* a in b of two strings
IsSubstring(a, b) ==
    \E i \in 1..(Len(b) - Len(a) + 1) : SubSeq(b, i, i + Len(a) - 1) = a

\* _extract_timestamp: no line of LogLines carries a "Build Time:" field, so the
\* first standard-format timestamp of the text is returned, else datetime.now()
ExtractTimestamp(ls, now) ==
    LET i == FirstIndex([k \in 1..Len(ls) |-> LineTimestamp(ls[k]) # << >>])
    IN  IF i > 0 THEN LocalTs(LineTimestamp(ls[i])[1]) ELSE LocalTs(now)

\* _format_iso_timestamp: strptime of the local form, strftime of the ISO form;
\* a string strptime does not parse (the ISO form, no date) is returned as it is
FormatIsoTimestamp(ts) == IF ts.fmt = "local" THEN IsoTs(ts.sec) ELSE ts

\* _is_monkey_internal_error(process_name, context), the context given as lines
IsMonkeyInternalError(p, ls) ==
    \/ ProcessHasMonkeyPattern(p)
    \/ \E i \in 1..Len(ls) : HasMonkeyPattern(ls[i])

(***************************************************************************)
(* The extractors' helpers.                                                *)
(***************************************************************************)
\* _extract_error_section: from the first line holding the keyword, up to and
\* including the first line that is neither blank nor a comment
RECURSIVE ErrorSectionFrom(_, _)
ErrorSectionFrom(ls, i) ==
    IF i > Len(ls) THEN << >>
    ELSE IF ~IsComment(ls[i]) /\ ~IsBlank(ls[i]) THEN <<ls[i]>>
    ELSE <<ls[i]>> \o ErrorSectionFrom(ls, i + 1)

ExtractErrorSection(ls, p) ==
    LET i == FirstIndex([k \in 1..Len(ls) |-> HasCrashKeyword(ls[k], p)])
    IN  IF i = 0 THEN << >> ELSE ErrorSectionFrom(ls, i)

\* _extract_stack_trace: from the first line naming the process and an exception,
\* up to a blank line met when more than 5 lines are held
RECURSIVE StackTraceFrom(_, _, _)
StackTraceFrom(ls, i, n) ==
    IF i > Len(ls) THEN << >>
    ELSE IF IsBlank(ls[i]) /\ n + 1 > MinLinesBeforeBlank THEN <<ls[i]>>
    ELSE <<ls[i]>> \o StackTraceFrom(ls, i + 1, n + 1)

ExtractStackTrace(ls, p) ==
    LET i == FirstIndex([k \in 1..Len(ls) |->
                            HasProcess(ls[k], p) /\ HasExceptionOrError(ls[k])])
    IN  IF i = 0 THEN << >> ELSE StackTraceFrom(ls, i, 0)

\* ContextLinesFrom with `line_count > max_lines` for `line_count >= max_lines`
RECURSIVE ContextLinesFromLate(_, _, _)
ContextLinesFromLate(ls, i, ctx) ==
    IF i > Len(ls) THEN ctx
    ELSE LET l == ls[i]
             kept == \/ IsComment(l) \/ IsFrameLine(l)
                     \/ (~IsBlank(l) /\ ~IsStars(l) /\ HasExceptionOrError(l))
             ctx2 == IF kept THEN Append(ctx, Strip(l)) ELSE ctx
         IN  IF Len(ctx2) > MaxContextLines
                \/ (IsBlank(l) /\ Len(ctx2) > MinLinesBeforeBlank)
             THEN ctx2
             ELSE ContextLinesFromLate(ls, i + 1, ctx2)

\* the body of the loop of _extract_context_lines, from line i on, capture being on
RECURSIVE ContextLinesFrom(_, _, _)
ContextLinesFrom(ls, i, ctx) ==
    IF i > Len(ls) THEN ctx
    ELSE LET l == ls[i]
             kept == \/ IsComment(l) \/ IsFrameLine(l)
                     \/ (~IsBlank(l) /\ ~IsStars(l) /\ HasExceptionOrError(l))
             ctx2 == IF kept THEN Append(ctx, Strip(l)) ELSE ctx
         IN  IF Len(ctx2) >= MaxContextLines
                \/ (IsBlank(l) /\ Len(ctx2) > MinLinesBeforeBlank)
             THEN ctx2
             ELSE ContextLinesFrom(ls, i + 1, ctx2)

\* _extract_context_lines(log_text, keyword); has_keyword[i] is `keyword in line` of line i
ExtractContextLines(ls, has_keyword) ==
    LET i == FirstIndex(has_keyword)
    IN  IF i = 0 THEN << >> ELSE ContextLinesFrom(ls, i, << >>)

\* _extract_process_from_context: no line of LogLines carries a "Process: .., PID: .."
\* field, so the first package-like name of the text is returned, else the literal
ExtractProcessFromContext(ls) ==
    LET i == FirstIndex([k \in 1..Len(ls) |-> LinePackage(ls[k]) # << >>])
    IN  IF i > 0 THEN LinePackage(ls[i])[1] ELSE UnknownProcess

\* the number of characters of "".join(lines), each line ending in a newline
RECURSIVE TextLen(_)
TextLen(ls) == IF ls = << >> THEN 0 ELSE LineLen(Head(ls)) + 1 + TextLen(Tail(ls))

\* text[:n]: the lines that fit with their newline, then what the slice leaves of the
\* line it cuts, Head(ls)[:n]
RECURSIVE TruncateText(_, _)
TruncateText(ls, n) ==
    IF ls = << >> \/ n <= 0 THEN << >>
    ELSE IF LineLen(Head(ls)) >= n THEN <<SubSeq(Head(ls), 1, n)>>
    ELSE <<Head(ls)>> \o TruncateText(Tail(ls), n - LineLen(Head(ls)) - 1)

\* re.findall over a whole text, given the matches in each of its lines: no pattern of
\* the code matches across a newline, so the matches are those of the lines, in order
AllMatches(line_matches) == Flatten(line_matches)

(***************************************************************************)
(* State.                                                                  *)
(***************************************************************************)
VARIABLES
    monkey_log,        \* self.monkey_log: the lines of the loaded log
    analysis_results,  \* self.analysis_results: crashes, anrs, exceptions
    now,               \* the wall clock read by datetime.now()
    assembled,         \* generate_json_report: json_errors as handed to deduplicate_errors
    original_count,    \* generate_json_report: original_count
    json_errors,       \* generate_json_report: json_errors
    sorted_errors,     \* _filter_derived_errors: errors, once sorted
    error_chains,      \* _filter_derived_errors: error_chains, as the loop over the
                       \* chains leaves them
    pc,                \* the step the run has reached
    stability_score,   \* generate_executive_summary: stability_score, as an option
    saved_files,       \* save_json_report: the files dumped in full into the json directory
    report_runs,       \* the calls of _call_report_py so far: the file and what happened
    summarize_runs,    \* the calls of _call_summarize_reports so far
    listing,           \* the working directory: what monkey_logs_<t> is, for each t
    monkey_folders,    \* batch_process_monkey_logs: monkey_folders
    success_count,     \* batch_process_monkey_logs: success_count
    fail_count         \* batch_process_monkey_logs: fail_count

\* what the summary, save_json_report and batch_process_monkey_logs write
batchVars == <<listing, monkey_folders, success_count, fail_count>>

outputVars == <<stability_score, saved_files, report_runs, summarize_runs, listing,
                monkey_folders, success_count, fail_count>>

vars == <<monkey_log, analysis_results, now, assembled, original_count, json_errors,
          sorted_errors, error_chains, pc, stability_score, saved_files, report_runs,
          summarize_runs, listing, monkey_folders, success_count, fail_count>>

\* nothing summarized, saved or batch-processed yet, in an empty working directory
NoOutputs ==
    /\ stability_score = << >>
    /\ saved_files = << >>
    /\ report_runs = << >>
    /\ summarize_runs = 0
    /\ listing = [t \in 1..MaxFolders |-> "none"]
    /\ monkey_folders = << >>
    /\ success_count = 0
    /\ fail_count = 0

RECURSIVE SeqsUpTo(_, _)
SeqsUpTo(S, n) ==
    IF n = 0 THEN {<< >>}
    ELSE LET shorter == SeqsUpTo(S, n - 1)
         IN  shorter \cup {Append(q, x) : q \in {r \in shorter : Len(r) = n - 1}, x \in S}

\* __init__, then load_monkey_log of a file of at most MaxLogLen lines
Init ==
    /\ monkey_log \in SeqsUpTo(LogLines, MaxLogLen)
    /\ analysis_results = [crashes |-> << >>, anrs |-> << >>, exceptions |-> << >>]
    /\ now = NowStart
    /\ assembled = << >>
    /\ original_count = 0
    /\ json_errors = << >>
    /\ sorted_errors = << >>
    /\ error_chains = << >>
    /\ pc = "loaded"
    /\ NoOutputs

(***************************************************************************)
(* Extraction: _analyze_crashes, _analyze_anrs, _analyze_exceptions.       *)
(***************************************************************************)
\* one iteration of the loop of _analyze_crashes, for the match m = <<process, pid>>
CrashInfo(ls, m, clock) ==
    LET p == m[1]
        has_keyword == [k \in 1..Len(ls) |-> HasCrashKeyword(ls[k], p)]
        error_section == ExtractErrorSection(ls, p)
        stack_trace == ExtractStackTrace(ls, p)
        context_lines == ExtractContextLines(ls, has_keyword)
    IN  [skip |-> IsMonkeyInternalError(p, error_section \o stack_trace),
         info |-> [process |-> p,
                   pid |-> <<m[2]>>,
                   timestamp |-> ExtractTimestamp(
                       IF ~TextIsEmpty(error_section) THEN error_section
                       ELSE context_lines, clock),
                   context |-> context_lines]]

\* one iteration of the loop of _analyze_anrs
AnrInfo(ls, m, clock) ==
    LET p == m[1]
        has_keyword == [k \in 1..Len(ls) |-> HasAnrKeyword(ls[k], p)]
        context_lines == ExtractContextLines(ls, has_keyword)
    IN  [skip |-> IsMonkeyInternalError(p, context_lines),
         info |-> [process |-> p,
                   pid |-> <<m[2]>>,
                   timestamp |-> ExtractTimestamp(context_lines, clock),
                   context |-> context_lines]]

\* one iteration of the loop of _analyze_exceptions, for the trigger line i (from 1)
ExceptionInfo(log, i, clock) ==
    LET context_start == Max(0, (i - 1) - WindowBefore)
        context_end == Min(Len(log), (i - 1) + WindowEnd)
        context == SubSeq(log, context_start + 1, context_end)
        process_name == ExtractProcessFromContext(context)
    IN  [skip |-> IsMonkeyInternalError(process_name, Append(context, log[i])),
         info |-> [process |-> process_name,
                   timestamp |-> ExtractTimestamp(Append(context, log[i]), clock),
                   details |-> Strip(log[i]),
                   context |-> TruncateText(context, ContextChars)]]

\* the infos of the iterations that did not `continue`
Kept(infos) ==
    LET NotSkipped(x) == ~x.skip
        kept == SelectSeq(infos, NotSkipped)
    IN  [k \in 1..Len(kept) |-> kept[k].info]

\* re.findall(crash_pattern, log_text)
CrashMatchesIn(log) == AllMatches([k \in 1..Len(log) |-> CrashMatches(log[k])])

\* re.findall(anr_pattern, log_text)
AnrMatchesIn(log) == AllMatches([k \in 1..Len(log) |-> AnrMatches(log[k])])

\* the indices of the lines _analyze_exceptions builds a record for, in order
ExceptionTriggers(log) ==
    LET IsTrigger(i) == HasExceptionKeyword(log[i])
    IN  SelectSeq([i \in 1..Len(log) |-> i], IsTrigger)

\* the three extractors: clocks[k] is what datetime.now() returns while iteration k of
\* the loop runs (_extract_timestamp reads it when the text holds no timestamp)
AnalyzeCrashes(log, clocks) ==
    LET ls == SplitLines(log)
        crash_matches == CrashMatchesIn(log)
    IN  Kept([k \in 1..Len(crash_matches) |-> CrashInfo(ls, crash_matches[k], clocks[k])])

AnalyzeAnrs(log, clocks) ==
    LET ls == SplitLines(log)
        anr_matches == AnrMatchesIn(log)
    IN  Kept([k \in 1..Len(anr_matches) |-> AnrInfo(ls, anr_matches[k], clocks[k])])

AnalyzeExceptions(log, clocks) ==
    LET triggers == ExceptionTriggers(log)
    IN  Kept([k \in 1..Len(triggers) |-> ExceptionInfo(log, triggers[k], clocks[k])])

\* the iterations of the three loops of one call of analyze_monkey_log
Iterations(log) ==
    Len(CrashMatchesIn(log)) + Len(AnrMatchesIn(log)) + Len(ExceptionTriggers(log))

\* what a wall clock that never runs backwards can show at n readings from `from` on
RECURSIVE ClockReadings(_, _)
ClockReadings(from, n) ==
    IF n = 0 THEN {<< >>}
    ELSE UNION {{<<t>> \o r : r \in ClockReadings(t, n - 1)} :
                   t \in from..(NowStart + MaxTick)}

\* self.analysis_results after _analyze_crashes, _analyze_anrs and _analyze_exceptions,
\* in the code's order, each appending to its list; clocks holds one reading for
\* every iteration
Analyzed(results, log, clocks) ==
    LET nc == Len(CrashMatchesIn(log))
        na == Len(AnrMatchesIn(log))
        ne == Len(ExceptionTriggers(log))
    IN  [crashes |-> results.crashes \o AnalyzeCrashes(log, SubSeq(clocks, 1, nc)),
         anrs |-> results.anrs \o AnalyzeAnrs(log, SubSeq(clocks, nc + 1, nc + na)),
         exceptions |-> results.exceptions
                           \o AnalyzeExceptions(log, SubSeq(clocks, nc + na + 1,
                                                            nc + na + ne))]

\* analyze_monkey_log on a log with lines: the clock is read in every iteration and may
\* advance between two readings; its last reading here is the clock at the return
AnalyzeMonkeyLog ==
    /\ pc = "loaded"
    /\ monkey_log # << >>
    /\ \E clocks \in ClockReadings(now, Iterations(monkey_log) + 1) :
          /\ analysis_results' = Analyzed(analysis_results, monkey_log, clocks)
          /\ now' = clocks[Len(clocks)]
    /\ pc' = "analyzed"
    /\ UNCHANGED <<monkey_log, assembled, original_count, json_errors, sorted_errors,
                   error_chains>>
    /\ UNCHANGED outputVars

\* analyze_monkey_log on an empty log: `if not self.monkey_log: return`
AnalyzeEmptyLog ==
    /\ pc = "loaded"
    /\ monkey_log = << >>
    /\ pc' = "analyzed"
    /\ UNCHANGED <<monkey_log, analysis_results, now, assembled, original_count,
                   json_errors, sorted_errors, error_chains>>
    /\ UNCHANGED outputVars

\* a second call of analyze_monkey_log on the same instance: the three analyses
\* append to the lists the first call filled; with an empty log the call returns at once
AnalyzeMonkeyLogAgain ==
    /\ pc = "analyzed"
    /\ IF monkey_log = << >>
       THEN UNCHANGED <<analysis_results, now>>
       ELSE \E clocks \in ClockReadings(now, Iterations(monkey_log) + 1) :
               /\ analysis_results' = Analyzed(analysis_results, monkey_log, clocks)
               /\ now' = clocks[Len(clocks)]
    /\ pc' = "reanalyzed"
    /\ UNCHANGED <<monkey_log, assembled, original_count, json_errors, sorted_errors,
                   error_chains>>
    /\ UNCHANGED outputVars

(***************************************************************************)
(* generate_json_report: the records of the catalogue.                     *)
(***************************************************************************)
\* error_obj of a crash or an ANR: each context line is one element of "context"
MarkerError(category, info) ==
    [category |-> category,
     processName |-> info.process,
     pid |-> info.pid,
     timestamp |-> FormatIsoTimestamp(info.timestamp),
     context |-> [k \in 1..Len(info.context) |-> <<info.context[k]>>],
     deduplication |-> << >>,
     severity |-> << >>,
     rootCause |-> << >>]

\* error_obj of an exception: "context" is [details, context], the second a text
ExceptionError(info) ==
    [category |-> "exception",
     processName |-> info.process,
     pid |-> << >>,
     timestamp |-> FormatIsoTimestamp(info.timestamp),
     context |-> <<<<info.details>>, info.context>>,
     deduplication |-> << >>,
     severity |-> << >>,
     rootCause |-> << >>]

\* json_errors as assembled from self.analysis_results: crashes, ANRs, exceptions
AssembleErrors(results) ==
    [k \in 1..Len(results.crashes) |-> MarkerError("crash", results.crashes[k])]
    \o [k \in 1..Len(results.anrs) |-> MarkerError("anr", results.anrs[k])]
    \o [k \in 1..Len(results.exceptions) |-> ExceptionError(results.exceptions[k])]

\* the lines of ' '.join(error['context']), in order
ContextLines(error) == Flatten(error.context)

\* StableSort placing, of two elements with equal keys, the later one first
StableSortTiesReversed(seq, keys) ==
    LET n == Len(seq)
        Rank(i) == 1 + Cardinality({j \in 1..n :
                        keys[j] < keys[i] \/ (keys[j] = keys[i] /\ j > i)})
    IN  [k \in 1..n |-> seq[CHOOSE i \in 1..n : Rank(i) = k]]

\* seq sorted by list.sort, keys[i] being the key of seq[i]: ascending and stable,
\* elements with equal keys keep their order. With reverse=True the sort is descending
\* and as stable, which is the ascending sort on the negated keys
StableSort(seq, keys) ==
    LET n == Len(seq)
        Rank(i) == 1 + Cardinality({j \in 1..n :
                        keys[j] < keys[i] \/ (keys[j] = keys[i] /\ j < i)})
    IN  [k \in 1..n |-> seq[CHOOSE i \in 1..n : Rank(i) = k]]

(***************************************************************************)
(* Deduplication.                                                          *)
(***************************************************************************)
\* _calculate_stack_signature: the parts joined by '|'; the 16 hex digits of their md5
\* are taken to differ whenever the parts differ
CalculateStackSignature(error) ==
    LET ls == ContextLines(error)
        exceptions == AllMatches([k \in 1..Len(ls) |-> LineExceptionTypes(ls[k])])
        methods == AllMatches([k \in 1..Len(ls) |-> LineMethods(ls[k])])
        exception_type == IF exceptions # << >> THEN exceptions[1] ELSE "Unknown"
        key_methods == SubSeq(methods, 1, Min(3, Len(methods)))
    IN  <<exception_type, error.processName>> \o key_methods

\* GroupCount with `group['count'] += 1` skipped for the record that opens the group
GroupCountSkippingFirst(errors, sig) ==
    Cardinality({i \in 1..Len(errors) : CalculateStackSignature(errors[i]) = sig}) - 1

\* group['count'] after the loop of deduplicate_errors, for the group of signature sig
GroupCount(errors, sig) ==
    Cardinality({i \in 1..Len(errors) : CalculateStackSignature(errors[i]) = sig})

(***************************************************************************)
(* Python floats.  A positive float is m * 2^-shifts with 2^52 <= m <= 2^53; *)
(* m does not fit the integers of the checker and is held in three limbs,  *)
(* <<high, mid, low>> for high * Limb^2 + mid * Limb + low.                *)
(***************************************************************************)
Limb == 1048576

\* the least high limb of a 53-bit mantissa: 2^52 = 4096 * Limb^2
MantissaHigh == 4096

BigOf(n) == <<0, n \div Limb, n % Limb>>

BigDouble(x) ==
    LET low == 2 * x[3]
        mid == 2 * x[2] + low \div Limb
    IN  <<2 * x[1] + mid \div Limb, mid % Limb, low % Limb>>

BigHalf(x) ==
    <<x[1] \div 2, (x[2] + (x[1] % 2) * Limb) \div 2, (x[3] + (x[2] % 2) * Limb) \div 2>>

\* x + n for a small n >= 0
BigPlus(x, n) ==
    LET low == x[3] + n
        mid == x[2] + low \div Limb
    IN  <<x[1] + mid \div Limb, mid % Limb, low % Limb>>

\* x - y for x >= y
BigMinus(x, y) ==
    LET low == x[3] - y[3]
        borrow1 == IF low < 0 THEN 1 ELSE 0
        mid == x[2] - y[2] - borrow1
        borrow2 == IF mid < 0 THEN 1 ELSE 0
    IN  <<x[1] - y[1] - borrow2, mid + borrow2 * Limb, low + borrow1 * Limb>>

BigLess(x, y) ==
    \/ x[1] < y[1]
    \/ x[1] = y[1] /\ x[2] < y[2]
    \/ x[1] = y[1] /\ x[2] = y[2] /\ x[3] < y[3]

BigTimes100(x) ==
    LET low == 100 * x[3]
        mid == 100 * x[2] + low \div Limb
    IN  <<100 * x[1] + mid \div Limb, mid % Limb, low % Limb>>

BigIsOdd(x) == x[3] % 2 = 1

\* one more quotient bit of a / b for small integers a >= 0 and b > 0, until the quotient
\* holds 53 bits: q == floor(a * 2^shifts / b), r the remainder
SmallQuotientBit(s) ==
    IF s.q[1] >= MantissaHigh THEN s
    ELSE [q |-> BigPlus(BigDouble(s.q), (2 * s.r) \div s.b), r |-> (2 * s.r) % s.b,
          b |-> s.b, shifts |-> s.shifts + 1]

SmallQuotientBits(s) ==
    SmallQuotientBit(SmallQuotientBit(SmallQuotientBit(SmallQuotientBit(
    SmallQuotientBit(SmallQuotientBit(SmallQuotientBit(SmallQuotientBit(s))))))))

RECURSIVE SmallQuotient(_)
SmallQuotient(s) ==
    IF s.q[1] >= MantissaHigh THEN s ELSE SmallQuotient(SmallQuotientBits(s))

\* float(a) / b for integers a > 0 and b > 0, rounded to the nearest float, a tie to
\* the even mantissa
FloatOfQuotient(a, b) ==
    LET d == SmallQuotient([q |-> BigOf(a \div b), r |-> a % b, b |-> b, shifts |-> 0])
        up == 2 * d.r > b \/ (2 * d.r = b /\ BigIsOdd(d.q))
    IN  [m |-> IF up THEN BigPlus(d.q, 1) ELSE d.q, shifts |-> d.shifts]

\* one more quotient bit of r / m for a mantissa m, r < m, until the quotient holds 53
\* bits
BigQuotientBit(s) ==
    IF s.q[1] >= MantissaHigh THEN s
    ELSE LET r2 == BigDouble(s.r)
         IN  IF BigLess(r2, s.m)
             THEN [q |-> BigDouble(s.q), r |-> r2, m |-> s.m, shifts |-> s.shifts + 1]
             ELSE [q |-> BigPlus(BigDouble(s.q), 1), r |-> BigMinus(r2, s.m), m |-> s.m,
                   shifts |-> s.shifts + 1]

BigQuotientBits(s) ==
    BigQuotientBit(BigQuotientBit(BigQuotientBit(BigQuotientBit(
    BigQuotientBit(BigQuotientBit(BigQuotientBit(BigQuotientBit(s))))))))

RECURSIVE BigQuotient(_)
BigQuotient(s) ==
    IF s.q[1] >= MantissaHigh THEN s ELSE BigQuotient(BigQuotientBits(s))

\* n / d for an integer n > 0 and a float d: float(n) / d, rounded to the nearest float
IntOverFloat(n, d) ==
    LET x == BigQuotient([q |-> BigOf(0), r |-> BigOf(n), m |-> d.m, shifts |-> 0])
        r2 == BigDouble(x.r)
        up == BigLess(d.m, r2) \/ (r2 = d.m /\ BigIsOdd(x.q))
    IN  [m |-> IF up THEN BigPlus(x.q, 1) ELSE x.q, shifts |-> x.shifts - d.shifts]

\* one bit dropped from x: `half` is the last bit dropped, `rest` tells whether an
\* earlier one was set
ShiftBit(s) ==
    IF s.shifts = 0 THEN s
    ELSE [x |-> BigHalf(s.x), shifts |-> s.shifts - 1, half |-> BigIsOdd(s.x),
          rest |-> s.rest \/ s.half]

ShiftBits(s) ==
    ShiftBit(ShiftBit(ShiftBit(ShiftBit(ShiftBit(ShiftBit(ShiftBit(ShiftBit(s))))))))

RECURSIVE Shifted(_)
Shifted(s) == IF s.shifts = 0 THEN s ELSE Shifted(ShiftBits(s))

\* x / 2^shifts rounded to the nearest integer, a tie to the even one
ShiftAndRound(x, shifts) ==
    LET s == Shifted([x |-> x, shifts |-> shifts, half |-> FALSE, rest |-> FALSE])
    IN  IF s.half /\ (s.rest \/ BigIsOdd(s.x)) THEN BigPlus(s.x, 1) ELSE s.x

\* round(x, 2) of a float x below 2^20, in hundredths: the decimal nearest to the exact
\* value of the float, a tie to the even hundredth
RoundedHundredths(x) ==
    LET h == ShiftAndRound(BigTimes100(x.m), x.shifts)
    IN  h[2] * Limb + h[3]

\* round(count / (seconds / 60), 2) in hundredths, for count > 0 and seconds > 0: both
\* divisions are float divisions, each rounded to the nearest float
RoundDiv(count, seconds) ==
    RoundedHundredths(IntOverFloat(count, FloatOfQuotient(seconds, 60)))

\* _calculate_frequency, in hundredths of an occurrence per minute (the code rounds to
\* 2 decimals): count timestamps, the first and the last of them seconds apart; when
\* fromisoformat or the subtraction raises, the bare except returns 0
CalculateFrequency(count, first, last) ==
    IF count < 2 THEN 0
    ELSE IF ~DifferenceIsDefined(first, last) THEN 0
    ELSE LET seconds == last.sec - first.sec
         IN  IF seconds = 0 THEN 100 * count
             ELSE IF seconds > 0 THEN RoundDiv(count, seconds)
             ELSE -RoundDiv(count, -seconds)

\* the entry of `deduplicated` built for the group whose first record is errors[i]
GroupEntry(errors, i) ==
    LET sig == CalculateStackSignature(errors[i])
        members == {j \in 1..Len(errors) : CalculateStackSignature(errors[j]) = sig}
        last == CHOOSE j \in members : \A k \in members : k <= j
    IN  [errors[i] EXCEPT !.deduplication =
            <<[signature |-> sig,
               occurrences |-> GroupCount(errors, sig),
               first_seen |-> errors[i].timestamp,
               last_seen |-> errors[last].timestamp,
               frequency |-> CalculateFrequency(GroupCount(errors, sig),
                                 errors[i].timestamp, errors[last].timestamp)]>>]

\* deduplicate_errors: one entry per signature, in the order the signatures are first
\* seen, then sorted by occurrences, descending
DeduplicateErrors(errors) ==
    LET IsFirst(i) == \A j \in 1..(i - 1) :
                          CalculateStackSignature(errors[j])
                              # CalculateStackSignature(errors[i])
        firsts == SelectSeq([i \in 1..Len(errors) |-> i], IsFirst)
        deduplicated == [k \in 1..Len(firsts) |-> GroupEntry(errors, firsts[k])]
    IN  StableSort(deduplicated,
            [k \in 1..Len(deduplicated) |-> -deduplicated[k].deduplication[1].occurrences])

(***************************************************************************)
(* Severity scoring.                                                       *)
(***************************************************************************)
\* TypeScore with the weight of a crash for every category
TypeScoreFlat(category) == 40

\* category_scores.get(error['category'], 10)
TypeScore(category) ==
    CASE category = "crash" -> 40
      [] category = "anr" -> 30
      [] category = "exception" -> 15
      [] OTHER -> 10

\* _calculate_impact_score
CalculateImpactScore(error) ==
    LET ls == ContextLines(error)
        main == IF IsMainProcess(error.processName) THEN 10 ELSE 0
        critical == IF \/ ProcessHasCriticalModule(error.processName)
                       \/ \E i \in 1..Len(ls) : HasCriticalModule(ls[i])
                    THEN 10 ELSE 0
    IN  Min(main + critical, 20)

\* CalculateFrequencyScore growing with the occurrences, with no cap at 20
CalculateFrequencyScoreUncapped(error) ==
    IF error.deduplication = << >> THEN 0
    ELSE LET occurrences == error.deduplication[1].occurrences
         IN  IF occurrences >= 10 THEN 2 * occurrences
             ELSE IF occurrences >= 5 THEN 15
             ELSE IF occurrences >= 3 THEN 10
             ELSE 5

\* _calculate_frequency_score
CalculateFrequencyScore(error) ==
    IF error.deduplication = << >> THEN 0
    ELSE LET occurrences == error.deduplication[1].occurrences
         IN  IF occurrences >= 10 THEN 20
             ELSE IF occurrences >= 5 THEN 15
             ELSE IF occurrences >= 3 THEN 10
             ELSE 5

\* _calculate_user_impact_score
CalculateUserImpactScore(error) ==
    LET ls == ContextLines(error)
    IN  IF \E i \in 1..Len(ls) : HasBlockingPattern(ls[i]) THEN 20
        ELSE IF \E i \in 1..Len(ls) : HasDegradedPattern(ls[i]) THEN 10
        ELSE 5

\* GetPriorityLevel with > for >=
GetPriorityLevelStrict(score) ==
    IF score > 80 THEN "CRITICAL"
    ELSE IF score > 60 THEN "HIGH"
    ELSE IF score > 40 THEN "MEDIUM"
    ELSE "LOW"

\* _get_priority_level
GetPriorityLevel(score) ==
    IF score >= 80 THEN "CRITICAL"
    ELSE IF score >= 60 THEN "HIGH"
    ELSE IF score >= 40 THEN "MEDIUM"
    ELSE "LOW"

\* calculate_severity_score
CalculateSeverityScore(error) ==
    LET type_score == TypeScore(error.category)
        impact_score == CalculateImpactScore(error)
        frequency_score == CalculateFrequencyScore(error)
        user_impact_score == CalculateUserImpactScore(error)
        score == type_score + impact_score + frequency_score + user_impact_score
    IN  [total_score |-> Min(score, 100),
         priority |-> GetPriorityLevel(score),
         details |-> [type_score |-> type_score,
                      impact_score |-> impact_score,
                      frequency_score |-> frequency_score,
                      user_impact_score |-> user_impact_score]]

\* SortBySeverity as an ascending sort followed by reverse(): equal scores swap places
SortBySeverityThenReverse(errors) ==
    LET n == Len(errors)
        reversed == [k \in 1..n |-> errors[n + 1 - k]]
    IN  StableSort(reversed, [k \in 1..n |-> -reversed[k].severity[1].total_score])

\* errors.sort(key=total_score, reverse=True) of prioritize_errors
SortBySeverity(errors) ==
    StableSort(errors, [k \in 1..Len(errors) |-> -errors[k].severity[1].total_score])

\* prioritize_errors
PrioritizeErrors(errors) ==
    SortBySeverity([k \in 1..Len(errors) |->
        [errors[k] EXCEPT !.severity = <<CalculateSeverityScore(errors[k])>>]])

(***************************************************************************)
(* Root-cause analysis.                                                    *)
(***************************************************************************)
\* _classify_code_type
ClassifyCodeType(class_path) ==
    IF ClassIsSystem(class_path) THEN "SYSTEM"
    ELSE IF ClassIsThirdParty(class_path) THEN "THIRD_PARTY"
    ELSE "APPLICATION"

\* _identify_code_attribution: one attribution per frame of the context, in order
IdentifyCodeAttribution(ls) ==
    LET matches == AllMatches([k \in 1..Len(ls) |-> LineFrames(ls[k])])
    IN  [k \in 1..Len(matches) |->
            [class |-> matches[k].class, method |-> matches[k].method,
             file |-> matches[k].file, line |-> matches[k].line,
             type |-> ClassifyCodeType(matches[k].class)]]

\* _extract_code_snippet: the fragments of ' '.join(snippets[:3]); None is << >>
ExtractCodeSnippet(ls) ==
    LET snippets == AllMatches([k \in 1..Len(ls) |-> LineSnippets(ls[k])])
    IN  SubSeq(snippets, 1, Min(3, Len(snippets)))

\* LocationIndex choosing attributions[0] whatever its type
LocationIndexFirstFrame(attributions) ==
    IF attributions # << >> THEN 1 ELSE 0

\* the attribution _locate_error_point chooses: its index, 0 when it returns None
LocationIndex(attributions) ==
    LET app_code == {k \in 1..Len(attributions) : attributions[k].type = "APPLICATION"}
    IN  IF app_code # {} THEN CHOOSE k \in app_code : \A j \in app_code : k <= j
        ELSE IF attributions # << >> THEN 1
        ELSE 0

\* the chosen attribution once location['code_snippet'] is assigned
LocatedAttribution(ls, attribution) ==
    [class |-> attribution.class, method |-> attribution.method,
     file |-> attribution.file, line |-> attribution.line, type |-> attribution.type,
     code_snippet |-> ExtractCodeSnippet(ls)]

\* _locate_error_point, as an option (None is << >>)
LocateErrorPoint(ls, attributions) ==
    LET k == LocationIndex(attributions)
    IN  IF k = 0 THEN << >> ELSE <<LocatedAttribution(ls, attributions[k])>>

\* PatternOrder as an unordered map iterated by name
PatternOrderByName ==
    <<"CONCURRENT_MODIFICATION", "LIFECYCLE_ERROR", "NULL_POINTER", "OUT_OF_MEMORY",
      "RESOURCE_NOT_FOUND", "UNINITIALIZED_LATEINIT">>

\* the keys of `patterns` in _identify_error_pattern, in the order the dict holds them
PatternOrder ==
    <<"UNINITIALIZED_LATEINIT", "NULL_POINTER", "OUT_OF_MEMORY", "RESOURCE_NOT_FOUND",
      "CONCURRENT_MODIFICATION", "LIFECYCLE_ERROR">>

\* _identify_error_pattern: the id of the first pattern with a keyword in the context
IdentifyErrorPattern(ls) ==
    LET present == UNION {LinePatterns(ls[k]) : k \in 1..Len(ls)}
        hits == {k \in 1..Len(PatternOrder) : PatternOrder[k] \in present}
    IN  IF hits = {} THEN "UNKNOWN"
        ELSE PatternOrder[CHOOSE k \in hits : \A j \in hits : k <= j]

\* the suggestion returned for a pattern that suggestions_map does not hold
GenericSuggestion == "read the full stack trace and locate the faulty code"

\* suggestions_map of _generate_fix_suggestions, the texts in English; << >> for an id
\* that is no key of the map
SuggestionsMap(pattern_id) ==
    CASE pattern_id = "UNINITIALIZED_LATEINIT" ->
            <<"check ::property.isInitialized before the access",
              "initialize the property in the constructor or an init block",
              "consider a nullable type in place of lateinit">>
      [] pattern_id = "NULL_POINTER" ->
            <<"use the safe call operator ?.",
              "check for null before the access",
              "use the Elvis operator to give a default">>
      [] pattern_id = "OUT_OF_MEMORY" ->
            <<"check for memory leaks",
              "load images with inSampleSize",
              "release resources that are no longer used">>
      [] pattern_id = "RESOURCE_NOT_FOUND" ->
            <<"check the resource id",
              "make sure the resource exists in every configuration">>
      [] pattern_id = "LIFECYCLE_ERROR" ->
            <<"use commitAllowingStateLoss() in place of commit()",
              "run the fragment transaction in a fitting lifecycle method">>
      [] OTHER -> << >>

\* _generate_fix_suggestions: suggestions_map.get(pattern_id, [generic])[:3]
GenerateFixSuggestions(pattern_id) ==
    LET suggestions == IF SuggestionsMap(pattern_id) # << >> THEN SuggestionsMap(pattern_id)
                       ELSE <<GenericSuggestion>>
    IN  SubSeq(suggestions, 1, Min(3, Len(suggestions)))

\* _calculate_confidence
CalculateConfidence(error_location, pattern_id) ==
    LET located == IF error_location = << >> THEN 0
                   ELSE IF error_location[1].type = "APPLICATION" THEN 50
                   ELSE IF error_location[1].type = "THIRD_PARTY" THEN 30
                   ELSE 10
        matched == IF pattern_id # "UNKNOWN" THEN 40 ELSE 0
        snippet == IF error_location # << >> /\ error_location[1].code_snippet # << >>
                   THEN 10 ELSE 0
    IN  Min(located + matched + snippet, 100)

\* analyze_root_cause; the located attribution is the object held in code_attribution,
\* which so carries the code_snippet too
AnalyzeRootCause(error) ==
    LET ls == ContextLines(error)
        attributions == IdentifyCodeAttribution(ls)
        error_location == LocateErrorPoint(ls, attributions)
        error_pattern == IdentifyErrorPattern(ls)
    IN  [code_attribution |->
            [k \in 1..Len(attributions) |->
                IF k = LocationIndex(attributions) THEN error_location[1]
                ELSE attributions[k]],
         error_location |-> error_location,
         error_pattern |-> [id |-> error_pattern],
         fix_suggestions |-> GenerateFixSuggestions(error_pattern),
         confidence |-> CalculateConfidence(error_location, error_pattern)]

(***************************************************************************)
(* Stability score of the executive summary.                               *)
(***************************************************************************)
\* deduction.get(priority, 0) with priority defaulting to 'LOW'
PriorityDeduction(error) ==
    LET priority == IF error.severity = << >> THEN "LOW" ELSE error.severity[1].priority
    IN  CASE priority = "CRITICAL" -> 10
          [] priority = "HIGH" -> 5
          [] priority = "MEDIUM" -> 2
          [] priority = "LOW" -> 1
          [] OTHER -> 0

\* the deduction of the third loop for one record
FrequencyDeduction(error) ==
    IF error.deduplication = << >> THEN 0
    ELSE IF error.deduplication[1].occurrences > 10 THEN 5
    ELSE IF error.deduplication[1].occurrences > 5 THEN 3
    ELSE 0

\* the value of `score` once the two loops have run over errors[1..n]
RECURSIVE ScoreAfterLoops(_, _)
ScoreAfterLoops(errors, n) ==
    IF n = 0
    THEN 100 - (IF Len(errors) > 0 THEN Min(Len(errors) * 2, 40) ELSE 0)
    ELSE ScoreAfterLoops(errors, n - 1) - PriorityDeduction(errors[n])
                                        - FrequencyDeduction(errors[n])

\* CalculateStabilityScore returning score without max(score, 0)
CalculateStabilityScoreUnclamped(errors) ==
    ScoreAfterLoops(errors, Len(errors))

\* _calculate_stability_score
CalculateStabilityScore(errors) ==
    Max(ScoreAfterLoops(errors, Len(errors)), 0)

(***************************************************************************)
(* Saving the catalogue, in the simple or the full format, and rendering   *)
(* what was saved.                                                         *)
(***************************************************************************)
\* error_filename, by its suffix: 0 is report_<timestamp>.json, k is
\* report_<timestamp>_<k>.json
ErrorFilename(total, idx) == IF total = 1 THEN 0 ELSE idx

\* simple_error
SimpleError(error) ==
    [category |-> error.category, processName |-> error.processName,
     timestamp |-> error.timestamp, context |-> error.context]

\* SavedFiles without the `if json_data:` guard: the empty catalogue is dumped too
SavedFilesOfAnyCatalogue(json_data) ==
    IF json_data = << >>
    THEN <<[filename |-> 0,
            content |-> [category |-> "", processName |-> "", timestamp |-> IsoTs(0),
                         context |-> << >>]]>>
    ELSE [k \in 1..Len(json_data) |->
             [filename |-> ErrorFilename(Len(json_data), k),
              content |-> SimpleError(json_data[k])]]

\* saved_files after the loop over json_data, each file with what was dumped into it
SavedFiles(json_data) ==
    [k \in 1..Len(json_data) |->
        [filename |-> ErrorFilename(Len(json_data), k),
         content |-> SimpleError(json_data[k])]]

\* the suffix of report_<timestamp>_full.json, which no file of the simple format has
FullSuffix == -1

\* report_<timestamp>_full.json with the full_report dumped into it, of which the model
\* keeps the meta counts, the errors and the stability score of the summary; the file
\* report_<timestamp>_summary.txt written next to the json directory is not kept
FullReportFile(json_data, enable_correlation) ==
    [filename |-> FullSuffix,
     content |-> [total_errors |-> Len(json_data),
                  correlation_enabled |-> enable_correlation,
                  errors |-> json_data,
                  stability_score |-> CalculateStabilityScore(json_data)]]

\* how the two writes of the full format can end: the dump of the full file fails, the
\* write of the summary text fails, both succeed
FullWriteOutcomes == {"json_failed", "summary_failed", "written"}

\* what one call of _call_report_py can meet: report.py missing, the renderer ending
\* with exit code 0 or another one, subprocess.TimeoutExpired after 30 seconds,
\* FileNotFoundError of the interpreter, any other Exception
ReportOutcomes == {"missing", "ok", "failed", "timeout", "not_found", "error"}

\* CallReportPyRaises with no handler for subprocess.TimeoutExpired
CallReportPyRaisesOnTimeout(outcome) == outcome = "timeout"

\* whether _call_report_py lets an exception out: its try has a handler for
\* TimeoutExpired, for FileNotFoundError and for Exception
CallReportPyRaises(outcome) == FALSE

\* one call of _call_report_py, as the file it was given and what happened; the
\* renderer is launched unless report.py is missing
ReportRun(json_file, total_files, outcome) ==
    [filename |-> json_file.filename, total_files |-> total_files,
     launched |-> outcome # "missing", outcome |-> outcome]

(***************************************************************************)
(* Batch processing of the monkey_logs_* folders of the working directory. *)
(***************************************************************************)
\* the keys of EMOJI
EmojiKeys ==
    {"check", "cross", "warning", "folder", "file", "search", "save", "process", "clock",
     "target", "note", "chart", "red_circle", "yellow_circle", "orange_circle",
     "clipboard", "phone", "blue_circle", "green_circle", "star", "thumbs_up", "bulb"}

\* EMOJI[key] raises KeyError
EmojiRaises(key) == key \notin EmojiKeys

\* what monkey_logs_<t> can be: no such folder, a folder with no .log file, and a
\* folder with a .log file that cannot be loaded, whose processing raises, whose
\* report is not saved, or that is processed to the end
FolderKinds == {"none", "no_log", "unreadable", "raises", "report_failed", "ok"}

\* find_monkey_logs_folders: the folders that hold a .log file, sorted by timestamp
FindMonkeyLogsFolders(dir) ==
    LET Found(t) == dir[t] \notin {"none", "no_log"}
        RECURSIVE Scan(_)
        Scan(t) == IF t = 0 THEN << >>
                   ELSE IF Found(t)
                        THEN Append(Scan(t - 1), [timestamp |-> t, kind |-> dir[t]])
                        ELSE Scan(t - 1)
    IN  Scan(MaxFolders)

\* the body of the try of one turn of the loop: TRUE when it reaches success_count += 1
FolderSucceeds(folder) == folder.kind = "ok"

\* batch_process_monkey_logs as a whole: how it ends ("raised" when an exception leaves
\* it, "returned" at the early return, "done" after the summary), and its three locals
BatchProcess(dir) ==
    LET found == FindMonkeyLogsFolders(dir)
        success == Cardinality({k \in 1..Len(found) : FolderSucceeds(found[k])})
        untouched == [ending |-> "raised", monkey_folders |-> << >>,
                      success_count |-> 0, fail_count |-> 0]
    IN  IF EmojiRaises("search") \/ EmojiRaises("dir") THEN untouched
        ELSE IF found = << >>
             THEN IF EmojiRaises("warning") THEN untouched
                  ELSE [untouched EXCEPT !.ending = "returned"]
        ELSE IF EmojiRaises("check") \/ EmojiRaises("proc")
             THEN [untouched EXCEPT !.monkey_folders = found]
        ELSE [ending |-> IF \E key \in {"file", "cross", "chart", "note"} : EmojiRaises(key)
                         THEN "raised" ELSE "done",
              monkey_folders |-> found,
              success_count |-> success,
              fail_count |-> Len(found) - success]

(***************************************************************************)
(* Chain correlation.                                                      *)
(***************************************************************************)
\* set(seq)
Range(seq) == {seq[i] : i \in 1..Len(seq)}

\* _is_process_related
IsProcessRelated(process1, process2) ==
    IF process1 = "" \/ process2 = "" THEN FALSE
    ELSE IF process1 = process2 THEN TRUE
    ELSE IF ProcessContains(process1, process2) \/ ProcessContains(process2, process1)
         THEN TRUE
    ELSE LET parts1 == ProcessParts(process1)
             parts2 == ProcessParts(process2)
         IN  /\ Len(parts1) >= 3
             /\ Len(parts2) >= 3
             /\ SubSeq(parts1, 1, 3) = SubSeq(parts2, 1, 3)

\* _extract_error_features
ExtractErrorFeatures(ls) ==
    LET methods == AllMatches([k \in 1..Len(ls) |-> LineMethods(ls[k])])
    IN  [exception_types |-> AllMatches([k \in 1..Len(ls) |-> LineExceptionTypes(ls[k])]),
         error_messages |-> AllMatches([k \in 1..Len(ls) |-> LineErrorMessages(ls[k])]),
         key_methods |-> SubSeq(methods, 1, Min(3, Len(methods)))]

\* _has_feature_overlap
HasFeatureOverlap(features1, features2) ==
    \/ Range(features1.exception_types) \cap Range(features2.exception_types) # {}
    \/ \E m1 \in Range(features1.error_messages) :
       \E m2 \in Range(features2.error_messages) :
          m1 # "" /\ m2 # "" /\ (IsSubstring(m1, m2) \/ IsSubstring(m2, m1))
    \/ Range(features1.key_methods) \cap Range(features2.key_methods) # {}

\* _has_call_stack_relation
HasCallStackRelation(ls1, ls2) ==
    LET stack1 == AllMatches([k \in 1..Len(ls1) |-> LineStackClasses(ls1[k])])
        stack2 == AllMatches([k \in 1..Len(ls2) |-> LineStackClasses(ls2[k])])
    IN  IF stack1 = << >> \/ stack2 = << >> THEN FALSE
        ELSE Cardinality(Range(stack1) \cap Range(stack2)) >= 2

\* TooFarApart with `time_diff >= 5`
TooFarApartAtFive(ts1, ts2) ==
    /\ DifferenceIsDefined(ts1, ts2)
    /\ (IF ts2.sec >= ts1.sec THEN ts2.sec - ts1.sec ELSE ts1.sec - ts2.sec) >= ChainWindow

\* the try block of _is_related_error: TRUE when both timestamps parse and lie more
\* than 5 seconds apart; when fromisoformat or the subtraction raises, the except
\* clause passes and the check is skipped
TooFarApart(ts1, ts2) ==
    /\ DifferenceIsDefined(ts1, ts2)
    /\ (IF ts2.sec >= ts1.sec THEN ts2.sec - ts1.sec ELSE ts1.sec - ts2.sec) > ChainWindow

\* _is_related_error(error1, error2, chain): chain is not read
IsRelatedError(error1, error2) ==
    IF TooFarApart(error1.timestamp, error2.timestamp) THEN FALSE
    ELSE IF ~IsProcessRelated(error1.processName, error2.processName) THEN FALSE
    ELSE LET context1 == ContextLines(error1)
             context2 == ContextLines(error2)
         IN  \/ HasFeatureOverlap(ExtractErrorFeatures(context1),
                                  ExtractErrorFeatures(context2))
             \/ HasCallStackRelation(context1, context2)

\* ChainMembers testing a record against the members already in the chain too
ChainMembersAnyMember(errors, i, used_indices) ==
    LET direct == {j \in (i + 1)..Len(errors) :
                      j \notin used_indices /\ IsRelatedError(errors[i], errors[j])}
    IN  direct \cup {j \in (i + 1)..Len(errors) :
                        /\ j \notin used_indices
                        /\ \E m \in direct : m < j /\ IsRelatedError(errors[m], errors[j])}

\* the indices the inner loop of _build_error_chains appends to the chain opened at i
ChainMembers(errors, i, used_indices) ==
    {j \in (i + 1)..Len(errors) : j \notin used_indices /\ IsRelatedError(errors[i], errors[j])}

\* MarkUsed with `used_indices.add(j)` left out of the inner loop
MarkUsedAnchorOnly(used_indices, i, members) == used_indices \cup {i}

\* used_indices after the chain opened at i is complete
MarkUsed(used_indices, i, members) == used_indices \cup {i} \cup members

\* the outer loop of _build_error_chains, from index i on
RECURSIVE BuildChainsFrom(_, _, _)
BuildChainsFrom(errors, i, used_indices) ==
    IF i > Len(errors) THEN << >>
    ELSE IF i \in used_indices THEN BuildChainsFrom(errors, i + 1, used_indices)
    ELSE LET members == ChainMembers(errors, i, used_indices)
             InChain(j) == j = i \/ j \in members
             chain == [k \in 1..Len(SelectSeq([j \in 1..Len(errors) |-> j], InChain))
                          |-> errors[SelectSeq([j \in 1..Len(errors) |-> j], InChain)[k]]]
         IN  <<chain>> \o BuildChainsFrom(errors, i + 1, MarkUsed(used_indices, i, members))

\* _build_error_chains
BuildErrorChains(errors) ==
    IF errors = << >> THEN << >> ELSE BuildChainsFrom(errors, 1, {})

\* get_stack_depth: ' '.join(context).count(' at '); besides the occurrences inside a
\* line, one is formed where an element that starts with 'at ' follows the joining space
GetStackDepth(error) ==
    LET ls == ContextLines(error)
        inside == [i \in 1..Len(ls) |-> LineAtCount(ls[i])]
        joined == {k \in 2..Len(error.context) :
                      error.context[k] # << >> /\ StartsWithAt(error.context[k][1])}
    IN  SumSeq(inside) + Cardinality(joined)

\* FirstCrashAnr returning crash_anr[-1]
LastCrashAnr(crash_anr) == crash_anr[Len(crash_anr)]

\* the record strategy 1 of _identify_root_cause returns: crash_anr[0]
FirstCrashAnr(crash_anr) == crash_anr[1]

\* DeepestError with reverse=True left out of error_chain.sort
DeepestErrorAscending(error_chain) ==
    LET sorted == StableSort(error_chain,
                      [k \in 1..Len(error_chain) |-> GetStackDepth(error_chain[k])])
        max_depth == GetStackDepth(sorted[1])
        IsDeepest(e) == GetStackDepth(e) = max_depth
    IN  SelectSeq(sorted, IsDeepest)[1]

\* the record strategies 2 and 3 return: the chain sorted by depth, descending,
\* then the first record of the greatest depth
DeepestError(error_chain) ==
    LET sorted == StableSort(error_chain,
                      [k \in 1..Len(error_chain) |-> -GetStackDepth(error_chain[k])])
        max_depth == GetStackDepth(sorted[1])
        IsDeepest(e) == GetStackDepth(e) = max_depth
    IN  SelectSeq(sorted, IsDeepest)[1]

\* IdentifyRootCause returning None for a chain of one record
IdentifyRootCauseDroppingSingles(error_chain) ==
    IF Len(error_chain) <= 1 THEN << >>
    ELSE LET IsCrashAnr(e) == e.category \in {"crash", "anr"}
             crash_anr == SelectSeq(error_chain, IsCrashAnr)
         IN  IF crash_anr # << >> THEN <<FirstCrashAnr(crash_anr)>>
             ELSE <<DeepestError(error_chain)>>

\* _identify_root_cause: the record, as an option (None is << >>)
IdentifyRootCause(error_chain) ==
    IF error_chain = << >> THEN << >>
    ELSE IF Len(error_chain) = 1 THEN <<error_chain[1]>>
    ELSE LET IsCrashAnr(e) == e.category \in {"crash", "anr"}
             crash_anr == SelectSeq(error_chain, IsCrashAnr)
         IN  IF crash_anr # << >> THEN <<FirstCrashAnr(crash_anr)>>
             ELSE <<DeepestError(error_chain)>>

\* SortByTimestamp leaving the records in the order of the catalogue
SortByTimestampSkipped(errors) == errors

\* errors.sort(key=timestamp) of _filter_derived_errors: the timestamps are compared
\* as strings; ISO strings of one width compare as their instants do
SortByTimestamp(errors) ==
    StableSort(errors, [k \in 1..Len(errors) |-> TimestampOrder(errors[k].timestamp)])

\* root_causes of _filter_derived_errors, given the chains
RootCauses(chains) ==
    Flatten([k \in 1..Len(chains) |-> IdentifyRootCause(chains[k])])

\* a chain once _identify_root_cause has run on it: error_chain.sort(key=get_stack_depth,
\* reverse=True) sorts the list in place when it holds two records or more and no
\* crash or ANR
ChainAfterRootCause(error_chain) ==
    IF Len(error_chain) <= 1
       \/ \E k \in 1..Len(error_chain) : error_chain[k].category \in {"crash", "anr"}
    THEN error_chain
    ELSE StableSort(error_chain,
             [k \in 1..Len(error_chain) |-> -GetStackDepth(error_chain[k])])

\* error_chains of _filter_derived_errors when the loop over the chains has ended
ChainsAfterRootCauses(chains) ==
    [c \in 1..Len(chains) |-> ChainAfterRootCause(chains[c])]

(***************************************************************************)
(* The steps of generate_json_report.                                      *)
(***************************************************************************)
\* lines 1225-1265: json_errors is assembled from self.analysis_results and deduplicated
Deduplicate ==
    /\ pc \in {"analyzed", "reanalyzed"}
    /\ assembled' = AssembleErrors(analysis_results)
    /\ original_count' = Len(assembled')
    /\ json_errors' = DeduplicateErrors(assembled')
    /\ pc' = "deduplicated"
    /\ UNCHANGED <<monkey_log, analysis_results, now, sorted_errors, error_chains>>
    /\ UNCHANGED outputVars

\* lines 1267-1271: json_errors = self.prioritize_errors(json_errors)
Prioritize ==
    /\ pc = "deduplicated"
    /\ json_errors' = PrioritizeErrors(json_errors)
    /\ pc' = "prioritized"
    /\ UNCHANGED <<monkey_log, analysis_results, now, assembled, original_count, sorted_errors,
                   error_chains>>
    /\ UNCHANGED outputVars

\* prioritize_errors applied once more to the list it returned
Reprioritize ==
    /\ pc = "prioritized"
    /\ json_errors' = PrioritizeErrors(json_errors)
    /\ pc' = "reprioritized"
    /\ UNCHANGED <<monkey_log, analysis_results, now, assembled, original_count, sorted_errors,
                   error_chains>>
    /\ UNCHANGED outputVars

\* lines 1273-1278: error['rootCause'] = self.analyze_root_cause(error), for every record
LocateRootCauses ==
    /\ pc = "prioritized"
    /\ json_errors' = [k \in 1..Len(json_errors) |->
                          [json_errors[k] EXCEPT !.rootCause =
                              <<AnalyzeRootCause(json_errors[k])>>]]
    /\ pc' = "located"
    /\ UNCHANGED <<monkey_log, analysis_results, now, assembled, original_count, sorted_errors,
                   error_chains>>
    /\ UNCHANGED outputVars

\* lines 1280-1287 with enable_correlation: json_errors = _filter_derived_errors(json_errors)
Correlate ==
    /\ pc = "located"
    /\ original_count' = Len(json_errors)
    /\ IF json_errors = << >>
       THEN UNCHANGED <<json_errors, sorted_errors, error_chains>>
       ELSE /\ sorted_errors' = SortByTimestamp(json_errors)
            /\ error_chains' = ChainsAfterRootCauses(BuildErrorChains(sorted_errors'))
            /\ json_errors' = RootCauses(BuildErrorChains(sorted_errors'))
    /\ pc' = "correlated"
    /\ UNCHANGED <<monkey_log, analysis_results, now, assembled>>
    /\ UNCHANGED outputVars

\* lines 1280-1287 without enable_correlation: json_errors is returned as it is
ReturnCatalogue ==
    /\ pc = "located"
    /\ pc' = "returned"
    /\ UNCHANGED <<monkey_log, analysis_results, now, assembled, original_count,
                   json_errors, sorted_errors, error_chains>>
    /\ UNCHANGED outputVars

\* print_json_report after generate_json_report: the executive summary of the returned
\* catalogue, the empty one too, of which the model keeps the stability score; nothing
\* is written and neither the renderer nor the summarizer is called
GenerateExecutiveSummary ==
    /\ pc \in {"returned", "correlated"}
    /\ stability_score' = <<CalculateStabilityScore(json_errors)>>
    /\ pc' = "summarized"
    /\ UNCHANGED <<monkey_log, analysis_results, now, assembled, original_count,
                   json_errors, sorted_errors, error_chains>>
    /\ UNCHANGED <<saved_files, report_runs, summarize_runs>> /\ UNCHANGED batchVars

\* save_json_report(simple_format=True) up to the end of the loop that writes one
\* file per record of the catalogue generate_json_report returned. Each file is opened
\* and dumped in turn; `written` files are saved when an open or a dump fails, and the
\* exception ends save_json_report in its outer handler, which returns None
SaveJsonFiles ==
    /\ pc \in {"returned", "correlated"}
    /\ \E written \in 0..Len(SavedFiles(json_errors)) :
          /\ saved_files' = SubSeq(SavedFiles(json_errors), 1, written)
          /\ pc' = IF written = Len(SavedFiles(json_errors)) THEN "saved"
                   ELSE "save_failed"
    /\ UNCHANGED <<monkey_log, analysis_results, now, assembled, original_count,
                   json_errors, sorted_errors, error_chains>>
    /\ UNCHANGED <<stability_score, report_runs, summarize_runs>> /\ UNCHANGED batchVars

\* save_json_report(simple_format=False) up to the call of the renderer: a catalogue
\* that is not empty is dumped into one file with the stability score of its summary,
\* then its executive summary is written as text; a write that fails ends
\* save_json_report in its outer handler. Nothing is written for an empty catalogue
SaveFullReport ==
    /\ pc \in {"returned", "correlated"}
    /\ IF json_errors = << >>
       THEN /\ pc' = "full_saved"
            /\ UNCHANGED <<saved_files, stability_score>>
       ELSE /\ stability_score' = <<CalculateStabilityScore(json_errors)>>
            /\ \E write \in FullWriteOutcomes :
                  /\ saved_files' = IF write = "json_failed" THEN << >>
                                    ELSE <<FullReportFile(json_errors, pc = "correlated")>>
                  /\ pc' = IF write = "written" THEN "full_saved" ELSE "save_failed"
    /\ UNCHANGED <<monkey_log, analysis_results, now, assembled, original_count,
                   json_errors, sorted_errors, error_chains>>
    /\ UNCHANGED <<report_runs, summarize_runs>> /\ UNCHANGED batchVars

\* one call of self._call_report_py: a turn of `for error_file in saved_files` in the
\* simple format, the one call on the full file (total_files 1) in the full format; an
\* exception that leaves _call_report_py ends save_json_report in its outer handler
CallReportPy ==
    /\ pc \in {"saved", "full_saved"}
    /\ Len(report_runs) < Len(saved_files)
    /\ \E outcome \in ReportOutcomes :
          /\ report_runs' = Append(report_runs,
                                ReportRun(saved_files[Len(report_runs) + 1],
                                          Len(saved_files), outcome))
          /\ pc' = IF CallReportPyRaises(outcome) THEN "save_failed" ELSE pc
    /\ UNCHANGED <<monkey_log, analysis_results, now, assembled, original_count,
                   json_errors, sorted_errors, error_chains>>
    /\ UNCHANGED <<stability_score, saved_files, summarize_runs>> /\ UNCHANGED batchVars

\* self._call_summarize_reports() once the renderer has run on every file written,
\* then the return of save_json_report
CallSummarizeReports ==
    /\ pc \in {"saved", "full_saved"}
    /\ Len(report_runs) = Len(saved_files)
    /\ summarize_runs' = summarize_runs + 1
    /\ pc' = IF pc = "saved" THEN "save_returned" ELSE "full_returned"
    /\ UNCHANGED <<monkey_log, analysis_results, now, assembled, original_count,
                   json_errors, sorted_errors, error_chains>>
    /\ UNCHANGED <<stability_score, saved_files, report_runs>> /\ UNCHANGED batchVars

\* batch_process_monkey_logs() in the working directory
BatchProcessMonkeyLogs ==
    /\ pc = "batch_start"
    /\ LET batch == BatchProcess(listing)
       IN  /\ monkey_folders' = batch.monkey_folders
           /\ success_count' = batch.success_count
           /\ fail_count' = batch.fail_count
           /\ pc' = IF batch.ending = "raised" THEN "batch_raised"
                    ELSE IF batch.ending = "returned" THEN "batch_returned"
                    ELSE "batch_done"
    /\ UNCHANGED <<monkey_log, analysis_results, now, assembled, original_count,
                   json_errors, sorted_errors, error_chains>>
    /\ UNCHANGED <<stability_score, saved_files, report_runs, summarize_runs, listing>>

Next ==
    \/ AnalyzeMonkeyLog
    \/ AnalyzeEmptyLog
    \/ Deduplicate
    \/ Prioritize
    \/ LocateRootCauses
    \/ Correlate
    \/ ReturnCatalogue

\* one run on one log: load, analyze, report
Spec == Init /\ [][Next]_vars

(***************************************************************************)
(* The functions of the report on their own: the records the extractors    *)
(* leave in self.analysis_results are drawn from pools, as logs other than *)
(* those of Init (other timestamps, more lines) leave them.                *)
(***************************************************************************)
\* the instants a pooled record may carry: 2, 4 and 7 lie within the chain window of
\* each other, and so do 7 and 12; 2 and 12, 4 and 12 do not
PoolSeconds == {2, 4, 7, 12}

\* crash infos of ProcApp: the marker alone, or followed by an exception and a frame
CrashPool ==
    {[process |-> ProcApp, pid |-> <<"1">>, timestamp |-> LocalTs(t), context |-> c] :
        t \in PoolSeconds, c \in {<<LCrash>>, <<LCrash, LNpe, LFrameS>>}}

\* ANR infos of ProcSvc
AnrPool ==
    {[process |-> ProcSvc, pid |-> <<"2">>, timestamp |-> LocalTs(t),
      context |-> <<LAnr, LFrameS>>] : t \in PoolSeconds}

\* exception infos: a window holding LFatal carries LFatal's timestamp
ExceptionPool ==
    {[process |-> ProcJava, timestamp |-> LocalTs(t), details |-> LNpe,
      context |-> <<LNpe>>] : t \in {2, 12}}
    \cup {[process |-> ProcApp, timestamp |-> LocalTs(7), details |-> LFatal,
           context |-> c] : c \in {<<LFatal, LFrame>>, <<LFrame, LFrame, LFatal>>}}
    \cup {[process |-> ProcApp, timestamp |-> LocalTs(t), details |-> LNpe,
           context |-> <<LCrashMid, LNpe>>] : t \in PoolSeconds}
    \cup {[process |-> ProcApp, timestamp |-> LocalTs(t), details |-> LNpe,
           context |-> <<LFrame, LNpe>>] : t \in {2, 12}}
    \cup {[process |-> ProcApp, timestamp |-> LocalTs(t), details |-> LNpe,
           context |-> <<LFrame, LFrame, LNpe>>] : t \in {2, 4}}

\* self.analysis_results after an analysis that left at most MaxRecords records
InitRecords ==
    /\ monkey_log = << >>
    /\ \E cs \in SeqsUpTo(CrashPool, MaxRecords) :
       \E as \in SeqsUpTo(AnrPool, MaxRecords - Len(cs)) :
       \E es \in SeqsUpTo(ExceptionPool, MaxRecords - Len(cs) - Len(as)) :
          analysis_results = [crashes |-> cs, anrs |-> as, exceptions |-> es]
    /\ now = NowStart
    /\ assembled = << >>
    /\ original_count = 0
    /\ json_errors = << >>
    /\ sorted_errors = << >>
    /\ error_chains = << >>
    /\ pc = "analyzed"
    /\ NoOutputs

NextRecords ==
    \/ Deduplicate
    \/ Prioritize
    \/ Reprioritize
    \/ LocateRootCauses
    \/ Correlate
    \/ ReturnCatalogue

\* generate_json_report on pooled analysis results
SpecRecords == InitRecords /\ [][NextRecords]_vars

(***************************************************************************)
(* calculate_severity_score on its own: one deduplicated record, of any    *)
(* category, process and occurrence count, is scored by prioritize_errors. *)
(***************************************************************************)
ScoreCategories == {"crash", "anr", "exception", "performance"}

ScoreProcesses == {ProcApp, ProcSvc, ProcLogin}

ScoreContexts ==
    {<<<<LCrash>>>>,
     <<<<LCrash>>, <<LFrameS>>>>,
     <<<<LAnr>>, <<LNpe>>>>,
     <<<<LCrash>>, <<LFatal>>, <<LFrameS>>>>,
     <<<<LFatal>>, <<LNpe, LFatal>>>>}

\* a record as deduplicate_errors returns it, met occurrences times at second 7; with
\* occurrences = 0 the record carries no deduplication entry
ScoreRecord(category, process, context, occurrences) ==
    LET error == [category |-> category, processName |-> process, pid |-> << >>,
                  timestamp |-> IsoTs(7), context |-> context,
                  deduplication |-> << >>, severity |-> << >>, rootCause |-> << >>]
    IN  IF occurrences = 0 THEN error
        ELSE [error EXCEPT !.deduplication =
                 <<[signature |-> CalculateStackSignature(error),
                    occurrences |-> occurrences,
                    first_seen |-> IsoTs(7),
                    last_seen |-> IsoTs(7),
                    frequency |-> CalculateFrequency(occurrences, IsoTs(7), IsoTs(7))]>>]

InitScore ==
    /\ monkey_log = << >>
    /\ analysis_results = [crashes |-> << >>, anrs |-> << >>, exceptions |-> << >>]
    /\ now = NowStart
    /\ assembled = << >>
    /\ original_count = 0
    /\ \E category \in ScoreCategories, process \in ScoreProcesses,
          context \in ScoreContexts, occurrences \in 0..MaxOccurrences :
          json_errors = <<ScoreRecord(category, process, context, occurrences)>>
    /\ sorted_errors = << >>
    /\ error_chains = << >>
    /\ pc = "deduplicated"
    /\ NoOutputs

NextScore == Prioritize

SpecScore == InitScore /\ [][NextScore]_vars

(***************************************************************************)
(* The extractors on longer logs: an ANR marker followed by more frames    *)
(* than the context cap, and exception triggers with more lines after them *)
(* than the window takes.                                                  *)
(***************************************************************************)
\* n copies of a line
Repeat(l, n) == [k \in 1..n |-> l]

\* an ANR or a crash marker, frames, at most one line that is not retained, frames
ContextLogs ==
    {<<marker>> \o Repeat(LFrame, k1) \o filler \o Repeat(LFrame, k2) :
        marker \in {LAnr, LCrash}, k1 \in 0..MaxFrames, k2 \in 0..MaxFrames,
        filler \in {<< >>, <<LAbort>>, <<LBlank>>}}

\* exception lines among lines that trigger nothing
WindowLogs == SeqsUpTo({LNpe, LAbort, LBlank}, MaxWindowLog) \ {<< >>}

\* logs with an exception window of more than ContextChars characters: the third line
\* is a trigger, the lines around it are long
CutLogs ==
    {[k \in 1..n |-> IF k = 3 THEN LFatal ELSE filler] :
        filler \in {LFatal, LFrame}, n \in 6..MaxWindowLog}

InitLong ==
    /\ monkey_log \in ContextLogs \cup WindowLogs \cup CutLogs
    /\ analysis_results = [crashes |-> << >>, anrs |-> << >>, exceptions |-> << >>]
    /\ now = NowStart
    /\ assembled = << >>
    /\ original_count = 0
    /\ json_errors = << >>
    /\ sorted_errors = << >>
    /\ error_chains = << >>
    /\ pc = "loaded"
    /\ NoOutputs

NextLong == AnalyzeMonkeyLog

\* analyze_monkey_log on the longer logs
SpecLong == InitLong /\ [][NextLong]_vars

(***************************************************************************)
(* analyze_root_cause on its own: one prioritized crash record whose        *)
(* context is made of frames of the three code types, lines that carry the *)
(* keywords of the six patterns, and lines that carry a snippet.           *)
(***************************************************************************)
RootCauseLines == {LFrameS, LThird, LNoise, LLateinit, LNpe, LOom, LRes, LCme, LFatal, LVar}

InitRootCause ==
    /\ monkey_log = << >>
    /\ analysis_results = [crashes |-> << >>, anrs |-> << >>, exceptions |-> << >>]
    /\ now = NowStart
    /\ assembled = << >>
    /\ original_count = 0
    /\ \E context \in SeqsUpTo(RootCauseLines, MaxRootLines) :
          json_errors = <<[category |-> "crash", processName |-> ProcApp, pid |-> <<"1">>,
                           timestamp |-> IsoTs(7),
                           context |-> [k \in 1..Len(context) |-> <<context[k]>>],
                           deduplication |-> << >>, severity |-> << >>,
                           rootCause |-> << >>]>>
    /\ sorted_errors = << >>
    /\ error_chains = << >>
    /\ pc = "prioritized"
    /\ NoOutputs

NextRootCause == LocateRootCauses

SpecRootCause == InitRootCause /\ [][NextRootCause]_vars

(***************************************************************************)
(* The executive summary of large catalogues: runs of two deduplicated     *)
(* records, long enough for the count deduction to reach its cap and for   *)
(* the sum of deductions to pass 100.                                      *)
(***************************************************************************)
StabilityOccurrences == {1, 6, MaxOccurrences}

StabilityRecords ==
    {ScoreRecord(kind[1], kind[2], kind[3], occurrences) :
        kind \in {<<"crash", ProcApp, <<<<LCrash>>, <<LFatal>>, <<LFrameS>>>>>>,
                  <<"anr", ProcApp, <<<<LCrash>>, <<LFrameS>>>>>>,
                  <<"anr", ProcSvc, <<<<LCrash>>>>>>,
                  <<"performance", ProcSvc, <<<<LCrash>>>>>>},
        occurrences \in StabilityOccurrences}

InitStability ==
    /\ monkey_log = << >>
    /\ analysis_results = [crashes |-> << >>, anrs |-> << >>, exceptions |-> << >>]
    /\ now = NowStart
    /\ assembled = << >>
    /\ original_count = 0
    /\ \E first \in StabilityRecords, second \in StabilityRecords,
          k1 \in 0..MaxRun, k2 \in 0..MaxRun :
          json_errors = Repeat(first, k1) \o Repeat(second, k2)
    /\ sorted_errors = << >>
    /\ error_chains = << >>
    /\ pc = "deduplicated"
    /\ NoOutputs

NextStability ==
    \/ Prioritize
    \/ LocateRootCauses
    \/ ReturnCatalogue
    \/ GenerateExecutiveSummary

SpecStability == InitStability /\ [][NextStability]_vars

(***************************************************************************)
(* save_json_report in the simple and in the full format, on catalogues of *)
(* up to four records, with every outcome of every call of the renderer.   *)
(***************************************************************************)
SaveRecords ==
    {ScoreRecord("crash", ProcApp, <<<<LCrash>>, <<LFatal>>, <<LFrameS>>>>, 1),
     ScoreRecord("anr", ProcSvc, <<<<LCrash>>>>, 6)}

InitSave ==
    /\ monkey_log = << >>
    /\ analysis_results = [crashes |-> << >>, anrs |-> << >>, exceptions |-> << >>]
    /\ now = NowStart
    /\ assembled = << >>
    /\ original_count = 0
    /\ \E first \in SaveRecords, second \in SaveRecords,
          k1 \in 0..MaxSavedRun, k2 \in 0..MaxSavedRun :
          json_errors = Repeat(first, k1) \o Repeat(second, k2)
    /\ sorted_errors = << >>
    /\ error_chains = << >>
    /\ pc = "deduplicated"
    /\ NoOutputs

NextSave ==
    \/ Prioritize
    \/ LocateRootCauses
    \/ ReturnCatalogue
    \/ SaveJsonFiles
    \/ CallReportPy
    \/ CallSummarizeReports
    \/ SaveFullReport

SpecSave == InitSave /\ [][NextSave]_vars

(***************************************************************************)
(* batch_process_monkey_logs in every working directory of MaxFolders      *)
(* names.                                                                  *)
(***************************************************************************)
InitBatch ==
    /\ monkey_log = << >>
    /\ analysis_results = [crashes |-> << >>, anrs |-> << >>, exceptions |-> << >>]
    /\ now = NowStart
    /\ assembled = << >>
    /\ original_count = 0
    /\ json_errors = << >>
    /\ sorted_errors = << >>
    /\ error_chains = << >>
    /\ pc = "batch_start"
    /\ stability_score = << >>
    /\ saved_files = << >>
    /\ report_runs = << >>
    /\ summarize_runs = 0
    /\ listing \in [1..MaxFolders -> FolderKinds]
    /\ monkey_folders = << >>
    /\ success_count = 0
    /\ fail_count = 0

NextBatch == BatchProcessMonkeyLogs

SpecBatch == InitBatch /\ [][NextBatch]_vars

(***************************************************************************)
(* A whole run on one analyzer instance: load, analyze once or twice,      *)
(* generate the report with or without correlation, save it in the simple  *)
(* format.  The logs are short, the empty one among them.                  *)
(***************************************************************************)
RunLines == {LCrash, LNpe, LFrameS}

InitRun ==
    /\ monkey_log \in SeqsUpTo(RunLines, MaxRunLog)
    /\ analysis_results = [crashes |-> << >>, anrs |-> << >>, exceptions |-> << >>]
    /\ now = NowStart
    /\ assembled = << >>
    /\ original_count = 0
    /\ json_errors = << >>
    /\ sorted_errors = << >>
    /\ error_chains = << >>
    /\ pc = "loaded"
    /\ NoOutputs

NextRun ==
    \/ AnalyzeMonkeyLog
    \/ AnalyzeEmptyLog
    \/ AnalyzeMonkeyLogAgain
    \/ Deduplicate
    \/ Prioritize
    \/ LocateRootCauses
    \/ Correlate
    \/ ReturnCatalogue
    \/ SaveJsonFiles
    \/ CallReportPy
    \/ CallSummarizeReports

SpecRun == InitRun /\ [][NextRun]_vars

(***************************************************************************)
(* The relation of the correlation pass on its own: two crash records, as  *)
(* _analyze_crashes leaves them from a log of a marker line that is not    *)
(* itself retained and the comment and frame lines of the context.  The    *)
(* contexts share an exception type, a message that holds the other, a key *)
(* method, two stack classes below the key methods, one class, or nothing; *)
(* the timestamps lie 0, 1, 5 and 6 seconds apart or hold no date.         *)
(***************************************************************************)
RelatedPool ==
    LET contexts == {<<LNoise, LNoise, LNoise, LFrameS, LThird>>,
                     <<LFrameS, LThird>>,
                     <<LThird>>,
                     <<LLateinitNote>>,
                     <<LLateinitView, LThird>>,
                     <<LNpe>>,
                     <<LNpe, LFrameS>>}
    IN  {[process |-> p, pid |-> <<"1">>, timestamp |-> t, context |-> c] :
            p \in {ProcApp, ProcSvc, ProcLogin},
            t \in {LocalTs(2), LocalTs(7), LocalTs(8), InvalidTs(9)},
            c \in contexts}

InitRelated ==
    /\ monkey_log = << >>
    /\ \E first \in RelatedPool, second \in RelatedPool :
          analysis_results = [crashes |-> <<first, second>>, anrs |-> << >>,
                              exceptions |-> << >>]
    /\ now = NowStart
    /\ assembled = << >>
    /\ original_count = 0
    /\ json_errors = << >>
    /\ sorted_errors = << >>
    /\ error_chains = << >>
    /\ pc = "analyzed"
    /\ NoOutputs

NextRelated ==
    \/ Deduplicate
    \/ Prioritize
    \/ LocateRootCauses
    \/ Correlate

\* generate_json_report(enable_correlation=True) on two stored crash records
SpecRelated == InitRelated /\ [][NextRelated]_vars

(***************************************************************************)
(* Properties.                                                             *)
(***************************************************************************)
\* the stages at which json_errors is the deduplicated catalogue
Catalogued == pc \in {"deduplicated", "prioritized", "reprioritized", "located", "returned"}

\* the records self.analysis_results holds, of the three lists
StoredInfos ==
    Range(analysis_results.crashes) \cup Range(analysis_results.anrs)
        \cup Range(analysis_results.exceptions)

IsCrashOrAnr(e) == e.category \in {"crash", "anr"}

\* C1: after deduplicate_errors the occurrence counts of the groups add up to the
\* number of records given, every group counts at least one record, and every record
\* given belongs to exactly one group (SpecRecords)
DedupOccurrencesSumToInput ==
    Catalogued =>
        /\ SumSeq([k \in 1..Len(json_errors) |->
                      json_errors[k].deduplication[1].occurrences]) = Len(assembled)
        /\ \A k \in 1..Len(json_errors) : json_errors[k].deduplication[1].occurrences >= 1
        /\ \A i \in 1..Len(assembled) :
              Cardinality({k \in 1..Len(json_errors) :
                  json_errors[k].deduplication[1].signature
                      = CalculateStackSignature(assembled[i])}) = 1

\* three records were given, two of them of one signature
DedupMergedTwoOfThree ==
    /\ pc = "deduplicated"
    /\ Len(assembled) = 3
    /\ Len(json_errors) = 2
    /\ json_errors[1].deduplication[1].occurrences = 2

\* C2: _build_error_chains partitions its input: no chain is empty and every record
\* of the sorted input is in exactly one chain, exactly once (SpecRecords)
ChainsPartitionTheRecords ==
    (pc = "correlated") =>
        /\ \A c \in 1..Len(error_chains) : error_chains[c] # << >>
        /\ Len(Flatten(error_chains)) = Len(sorted_errors)
        /\ \A i \in 1..Len(sorted_errors) :
              Cardinality({ck \in {<<c, k>> : c \in 1..Len(error_chains), k \in 1..MaxRecords} :
                  /\ ck[2] <= Len(error_chains[ck[1]])
                  /\ error_chains[ck[1]][ck[2]] = sorted_errors[i]}) = 1

\* three records fell into a chain of two and a chain of one, the chain of two
\* not being two neighbours of the sorted input
TwoChainsOfThreeRecords ==
    /\ pc = "correlated"
    /\ Len(sorted_errors) = 3
    /\ Len(error_chains) = 2
    /\ error_chains[1] = <<sorted_errors[1], sorted_errors[3]>>

\* C3: _filter_derived_errors emits one record per chain, the record being a member
\* of its chain, and so no more records than it was given (SpecRecords)
OneRootCausePerChain ==
    (pc = "correlated") =>
        /\ Len(json_errors) = Len(error_chains)
        /\ \A k \in 1..Len(json_errors) :
              k <= Len(error_chains) => json_errors[k] \in Range(error_chains[k])
        /\ Len(json_errors) <= original_count

\* a chain of two and a chain of one were reduced to two records
ThreeRecordsFilteredToTwo ==
    /\ pc = "correlated"
    /\ original_count = 3
    /\ Len(json_errors) = 2
    /\ \E k \in 1..Len(error_chains) : Len(error_chains[k]) = 1
    /\ \E k \in 1..Len(error_chains) : Len(error_chains[k]) = 2

\* C4: the record emitted for a chain that holds a crash or an ANR is a crash or an
\* ANR of that chain, and none of the chain's crashes and ANRs is earlier (SpecRecords)
CrashAnrChainRootIsEarliestCrashAnr ==
    (pc = "correlated") =>
        \A k \in 1..Len(error_chains) :
            (k <= Len(json_errors) /\ \E e \in Range(error_chains[k]) : IsCrashOrAnr(e)) =>
                /\ IsCrashOrAnr(json_errors[k])
                /\ json_errors[k] \in Range(error_chains[k])
                /\ \A e \in Range(error_chains[k]) :
                      IsCrashOrAnr(e) => json_errors[k].timestamp.sec <= e.timestamp.sec

\* a chain whose root is a crash or ANR that follows an earlier exception, and
\* precedes another crash or ANR of the chain
CrashAnrRootAfterEarlierException ==
    /\ pc = "correlated"
    /\ \E k \in 1..Len(error_chains) :
          /\ k <= Len(json_errors)
          /\ IsCrashOrAnr(json_errors[k])
          /\ \E e \in Range(error_chains[k]) :
                /\ e.category = "exception"
                /\ e.timestamp.sec < json_errors[k].timestamp.sec
                /\ GetStackDepth(e) >= GetStackDepth(json_errors[k])
          /\ \E e \in Range(error_chains[k]) :
                /\ IsCrashOrAnr(e)
                /\ e.timestamp.sec > json_errors[k].timestamp.sec

\* C5: the record emitted for a chain of two or more records that holds no crash and
\* no ANR has the greatest count of ' at ' in the chain, and none of the records of
\* that count is earlier (SpecRecords)
ExceptionChainRootIsDeepestThenEarliest ==
    (pc = "correlated") =>
        \A k \in 1..Len(error_chains) :
            (k <= Len(json_errors) /\ \A e \in Range(error_chains[k]) : ~IsCrashOrAnr(e)) =>
                /\ json_errors[k] \in Range(error_chains[k])
                /\ \A e \in Range(error_chains[k]) :
                      /\ GetStackDepth(e) <= GetStackDepth(json_errors[k])
                      /\ GetStackDepth(e) = GetStackDepth(json_errors[k])
                            => json_errors[k].timestamp.sec <= e.timestamp.sec

\* a chain of three exceptions: an earlier record is shallower than the root, the root
\* shares the greatest depth with a later record
DeepestTieBrokenByTimestamp ==
    /\ pc = "correlated"
    /\ \E k \in 1..Len(error_chains) :
          /\ k <= Len(json_errors)
          /\ Len(error_chains[k]) = 3
          /\ \A e \in Range(error_chains[k]) : ~IsCrashOrAnr(e)
          /\ \E e \in Range(error_chains[k]) :
                /\ e.timestamp.sec < json_errors[k].timestamp.sec
                /\ GetStackDepth(e) < GetStackDepth(json_errors[k])
          /\ \E e \in Range(error_chains[k]) :
                /\ GetStackDepth(e) = GetStackDepth(json_errors[k])
                /\ e.timestamp.sec > json_errors[k].timestamp.sec

\* C6: total_score is the sum of the four sub-scores capped at 100, type_score is one
\* of 10, 15, 30, 40, and the other three lie in 0..20 (SpecScore)
TotalScoreIsCappedSum ==
    (pc = "prioritized") =>
        \A k \in 1..Len(json_errors) :
            LET severity == json_errors[k].severity[1]
                details == severity.details
                sum == details.type_score + details.impact_score
                           + details.frequency_score + details.user_impact_score
            IN  /\ severity.total_score = (IF sum > 100 THEN 100 ELSE sum)
                /\ severity.total_score \in 0..100
                /\ details.type_score \in {10, 15, 30, 40}
                /\ details.impact_score \in 0..20
                /\ details.frequency_score \in 0..20
                /\ details.user_impact_score \in 0..20

\* a record whose sub-scores are all at their greatest: 40 + 20 + 20 + 20, the sum
\* capped at 100
EverySubScoreAtItsMaximum ==
    /\ pc = "prioritized"
    /\ \E k \in 1..Len(json_errors) :
          /\ json_errors[k].severity[1].total_score = 100
          /\ json_errors[k].severity[1].details
                 = [type_score |-> 40, impact_score |-> 20,
                    frequency_score |-> 20, user_impact_score |-> 20]

\* C7: priority is CRITICAL from a total_score of 80, HIGH from 60, MEDIUM from 40,
\* LOW below (SpecScore)
PriorityIsStepOfTotalScore ==
    (pc = "prioritized") =>
        \A k \in 1..Len(json_errors) :
            LET severity == json_errors[k].severity[1]
            IN  /\ (severity.priority = "CRITICAL") <=> (severity.total_score >= 80)
                /\ (severity.priority = "HIGH")
                       <=> (severity.total_score >= 60 /\ severity.total_score < 80)
                /\ (severity.priority = "MEDIUM")
                       <=> (severity.total_score >= 40 /\ severity.total_score < 60)
                /\ (severity.priority = "LOW") <=> (severity.total_score < 40)

\* a record scored exactly 80 is CRITICAL
ScoreEightyIsCritical ==
    /\ pc = "prioritized"
    /\ \E k \in 1..Len(json_errors) :
          /\ json_errors[k].severity[1].total_score = 80
          /\ json_errors[k].severity[1].priority = "CRITICAL"

\* C8: prioritize_errors applied to the list it returned returns that list: the same
\* records, with the same scores and priorities, in the same order (SpecRecords)
PrioritizeTwiceIsPrioritizeOnce ==
    [][(pc = "prioritized" /\ pc' = "reprioritized") => json_errors' = json_errors]_vars

\* a list prioritized twice that holds two records of one score and one of another
ReprioritizedWithATie ==
    /\ pc = "reprioritized"
    /\ Len(json_errors) = 3
    /\ \E i, j \in 1..Len(json_errors) :
          /\ i < j
          /\ json_errors[i].severity[1].total_score = json_errors[j].severity[1].total_score
    /\ \E i, j \in 1..Len(json_errors) :
          json_errors[i].severity[1].total_score > json_errors[j].severity[1].total_score

\* C9: no stored record, of a crash, an ANR or an exception, has a process name or a
\* context that holds one of the identifiers of the monkey tool (Spec)
NoStoredRecordHoldsMonkeyIdentifier ==
    \A info \in StoredInfos :
        /\ ~ProcessHasMonkeyPattern(info.process)
        /\ \A k \in 1..Len(info.context) : ~HasMonkeyPattern(info.context[k])

\* C10: every stored record has a context that is not empty (Spec)
EveryStoredContextIsNonEmpty ==
    \A info \in StoredInfos : info.context # << >>

\* the number of lines retained among lines first..j of a log: the comment lines, the
\* stack frames and the other lines, neither blank nor starred, that name an exception
\* or an error
RetainedUpTo(ls, first, j) ==
    Cardinality({k \in first..j :
        \/ IsComment(ls[k]) \/ IsFrameLine(ls[k])
        \/ (~IsBlank(ls[k]) /\ ~IsStars(ls[k]) /\ HasExceptionOrError(ls[k]))})

\* context is made of the lines retained among lines first..last, stripped, in order
IsRetainedWindow(ls, first, last, context) ==
    /\ Len(context) = RetainedUpTo(ls, first, last)
    /\ \A n \in 1..Len(context) :
          \E j \in first..last :
              /\ RetainedUpTo(ls, first, j) = n
              /\ (j = first \/ RetainedUpTo(ls, first, j - 1) = n - 1)
              /\ context[n] = Strip(ls[j])

\* the stored ANR and crash records, each with the first line of the log that holds
\* the keyword of its marker
MarkerWindows ==
    LET ls == SplitLines(monkey_log)
    IN  {[context |-> analysis_results.anrs[a].context,
          first |-> FirstIndex([k \in 1..Len(ls) |->
                        HasAnrKeyword(ls[k], analysis_results.anrs[a].process)])] :
            a \in 1..Len(analysis_results.anrs)}
        \cup
        {[context |-> analysis_results.crashes[c].context,
          first |-> FirstIndex([k \in 1..Len(ls) |->
                        HasCrashKeyword(ls[k], analysis_results.crashes[c].process)])] :
            c \in 1..Len(analysis_results.crashes)}

\* C11, as stated: the context stored for an ANR or a crash is made of the lines
\* retained from the marker on, up to the 20th retained line; no line that is not
\* retained, a blank one included, ends the window (SpecLong)
ContextEndsAtTwentyLinesOnly ==
    \A w \in MarkerWindows :
        LET ls == SplitLines(monkey_log)
            ends == {j \in w.first..Len(ls) : RetainedUpTo(ls, w.first, j) >= 20}
            last == IF ends = {} THEN Len(ls)
                    ELSE CHOOSE j \in ends : \A k \in ends : j <= k
        IN  /\ Len(w.context) <= 20
            /\ IsRetainedWindow(ls, w.first, last, w.context)

\* C11, amended: the context stored for an ANR or a crash holds at most 20 lines: it
\* is made of the lines retained from the marker on, up to the 20th retained line or,
\* if it comes first, a blank line met when more than 5 lines are retained; a line
\* that is not retained and not blank neither counts nor ends the window (SpecLong)
ContextEndsAtTwentyLinesOrBlank ==
    \A w \in MarkerWindows :
        LET ls == SplitLines(monkey_log)
            ends == {j \in w.first..Len(ls) :
                        \/ RetainedUpTo(ls, w.first, j) >= 20
                        \/ (IsBlank(ls[j]) /\ RetainedUpTo(ls, w.first, j) > 5)}
            last == IF ends = {} THEN Len(ls)
                    ELSE CHOOSE j \in ends : \A k \in ends : j <= k
        IN  /\ Len(w.context) <= 20
            /\ IsRetainedWindow(ls, w.first, last, w.context)

\* a crash stored with 20 context lines from a log that holds 23 retained lines, a
\* starred line among them, which neither counted nor ended the window
TwentyLinesKeptOfMore ==
    /\ pc = "analyzed"
    /\ Len(monkey_log) = 24
    /\ \E k \in 2..15 : monkey_log[k] = LAbort
    /\ \E c \in 1..Len(analysis_results.crashes) :
          /\ Len(analysis_results.crashes[c].context) = 20
          /\ analysis_results.crashes[c].context[1] = LCrash
          /\ analysis_results.crashes[c].context[20] = LFrameS

\* C19: the context of an exception is the lines from 2 before the trigger line
\* through 5 after it, clipped to the log (SpecLong)
ExceptionWindowReachesFiveAfter ==
    LET IsTrigger(i) == HasExceptionKeyword(monkey_log[i])
        triggers == SelectSeq([i \in 1..Len(monkey_log) |-> i], IsTrigger)
        exceptions == analysis_results.exceptions
    IN  (pc = "analyzed" /\ Len(exceptions) = Len(triggers)) =>
            \A k \in 1..Len(exceptions) :
                exceptions[k].context =
                    SubSeq(monkey_log, Max(1, triggers[k] - 2),
                           Min(Len(monkey_log), triggers[k] + 5))

\* C12: the frequency of a deduplication group is 0 when the group has fewer than two
\* occurrences and 0 when its first and last timestamps are the same; otherwise it is
\* the occurrences divided by the minutes between them, to 2 decimals (SpecRecords)
FrequencyIsZeroWithoutDuration ==
    Catalogued =>
        \A k \in 1..Len(json_errors) :
            LET group == json_errors[k].deduplication[1]
                seconds == group.last_seen.sec - group.first_seen.sec
            IN  group.frequency =
                    (IF group.occurrences < 2 \/ seconds = 0 THEN 0
                     ELSE IF seconds > 0 THEN RoundDiv(group.occurrences, seconds)
                     ELSE -RoundDiv(group.occurrences, -seconds))

\* C13: confidence is base + 40 when the pattern is not UNKNOWN + 10 when a code
\* snippet was extracted, at most 100; base is 50 for an APPLICATION location, 30 for
\* THIRD_PARTY, 10 for SYSTEM and 10 when there is no location (SpecRootCause)
ConfidenceHasBaseTenWithoutLocation ==
    (pc = "located") =>
        \A k \in 1..Len(json_errors) :
            LET root == json_errors[k].rootCause[1]
                base == IF root.error_location = << >> THEN 10
                        ELSE IF root.error_location[1].type = "APPLICATION" THEN 50
                        ELSE IF root.error_location[1].type = "THIRD_PARTY" THEN 30
                        ELSE 10
                bonus == IF root.error_pattern.id # "UNKNOWN" THEN 40 ELSE 0
                snippet == IF /\ root.error_location # << >>
                              /\ root.error_location[1].code_snippet # << >>
                           THEN 10 ELSE 0
            IN  root.confidence = Min(base + bonus + snippet, 100)

\* C14: the pattern of a record is the first of lateinit, null pointer, out of memory,
\* missing resource, concurrent modification, lifecycle that has a keyword in the
\* context, and UNKNOWN when none has (SpecRootCause)
PatternIsFirstMatchInFixedOrder ==
    (pc = "located") =>
        \A k \in 1..Len(json_errors) :
            LET ls == ContextLines(json_errors[k])
                Has(id) == \E n \in 1..Len(ls) : id \in LinePatterns(ls[n])
            IN  json_errors[k].rootCause[1].error_pattern.id =
                    (IF Has("UNINITIALIZED_LATEINIT") THEN "UNINITIALIZED_LATEINIT"
                     ELSE IF Has("NULL_POINTER") THEN "NULL_POINTER"
                     ELSE IF Has("OUT_OF_MEMORY") THEN "OUT_OF_MEMORY"
                     ELSE IF Has("RESOURCE_NOT_FOUND") THEN "RESOURCE_NOT_FOUND"
                     ELSE IF Has("CONCURRENT_MODIFICATION") THEN "CONCURRENT_MODIFICATION"
                     ELSE IF Has("LIFECYCLE_ERROR") THEN "LIFECYCLE_ERROR"
                     ELSE "UNKNOWN")

\* a context whose lines carry, in this order, the keywords of the lifecycle, the
\* null-pointer and the lateinit pattern: the pattern is the lateinit one
LateinitWinsOverEarlierLines ==
    /\ pc = "located"
    /\ ContextLines(json_errors[1]) = <<LFatal, LNpe, LLateinit>>
    /\ json_errors[1].rootCause[1].error_pattern.id = "UNINITIALIZED_LATEINIT"

\* C15: fix_suggestions holds 1 to 3 entries; for a matched pattern they are the first
\* entries of the list suggestions_map keeps for it, and for UNKNOWN the list is the
\* single generic suggestion (SpecRootCause)
SuggestionsComeFromThePatternsList ==
    (pc = "located") =>
        \A k \in 1..Len(json_errors) :
            LET root == json_errors[k].rootCause[1]
                id == root.error_pattern.id
                keyed == SuggestionsMap(id)
            IN  /\ Len(root.fix_suggestions) \in 1..3
                /\ id = "UNKNOWN" => root.fix_suggestions = <<GenericSuggestion>>
                /\ id # "UNKNOWN" =>
                      /\ keyed # << >>
                      /\ root.fix_suggestions = SubSeq(keyed, 1, Min(3, Len(keyed)))

\* C20: the location of a record is the first APPLICATION frame of its context when
\* there is one, else the first frame, and there is none exactly when the context has
\* no frame (SpecRootCause)
LocationIsFirstApplicationFrame ==
    (pc = "located") =>
        \A k \in 1..Len(json_errors) :
            LET ls == ContextLines(json_errors[k])
                frames == AllMatches([n \in 1..Len(ls) |-> LineFrames(ls[n])])
                IsApp(f) == ~ClassIsSystem(f.class) /\ ~ClassIsThirdParty(f.class)
                app == SelectSeq(frames, IsApp)
                expected == IF app # << >> THEN <<app[1]>>
                            ELSE IF frames # << >> THEN <<frames[1]>>
                            ELSE << >>
                location == json_errors[k].rootCause[1].error_location
            IN  /\ Len(location) = Len(expected)
                /\ location # << >> =>
                      /\ location[1].class = expected[1].class
                      /\ location[1].method = expected[1].method
                      /\ location[1].file = expected[1].file
                      /\ location[1].line = expected[1].line

\* a context whose frames are a SYSTEM, a THIRD_PARTY and an APPLICATION one, in this
\* order: the location is the APPLICATION frame
ApplicationFrameChosenOverEarlierFrames ==
    /\ pc = "located"
    /\ ContextLines(json_errors[1]) = <<LNoise, LThird, LFrameS>>
    /\ json_errors[1].rootCause[1].error_location # << >>
    /\ json_errors[1].rootCause[1].error_location[1].type = "APPLICATION"
    /\ json_errors[1].rootCause[1].error_location[1].class = "com.ex.app.MainActivity"

\* C16: the stability score of a catalogue of n records is
\* max(0, 100 - min(2n, 40) - 10/5/2/1 per CRITICAL/HIGH/MEDIUM/LOW record
\* - 5 per record with more than 10 occurrences - 3 per record with 6 to 10), lies in
\* 0..100 and is 100 for the empty catalogue (SpecStability)
StabilityScoreIsClampedDeduction ==
    (pc = "summarized") =>
        LET n == Len(json_errors)
            With(priority) == Cardinality({k \in 1..n :
                                  json_errors[k].severity[1].priority = priority})
            Above(m) == Cardinality({k \in 1..n :
                                  json_errors[k].deduplication[1].occurrences > m})
            raw == 100 - Min(2 * n, 40)
                       - 10 * With("CRITICAL") - 5 * With("HIGH")
                       - 2 * With("MEDIUM") - With("LOW")
                       - 5 * Above(10) - 3 * (Above(5) - Above(10))
        IN  /\ stability_score = <<Max(0, raw)>>
            /\ stability_score[1] \in 0..100
            /\ n = 0 => stability_score[1] = 100

\* a catalogue of more than twenty records, among them at least six CRITICAL ones seen
\* more than ten times: the deductions pass 100 and the score is 0
DeductionsPastHundredScoreZero ==
    /\ pc = "summarized"
    /\ Len(json_errors) > 20
    /\ Cardinality({k \in 1..Len(json_errors) :
            /\ json_errors[k].severity[1].priority = "CRITICAL"
            /\ json_errors[k].deduplication[1].occurrences > 10}) >= 6
    /\ stability_score = <<0>>

\* C18: in save_json_report the renderer runs on the saved files in their order, once
\* each, whatever each run met; a save in the simple format that returns has rendered
\* every file, one per record of the catalogue, and called the summarizer once; the
\* save ends in its handler only before the first run of the renderer, on a write that
\* failed, never on what a run of the renderer met (SpecSave)
EveryFileRenderedThenSummarized ==
    /\ Len(report_runs) <= Len(saved_files)
    /\ \A k \in 1..Len(report_runs) : report_runs[k].filename = saved_files[k].filename
    /\ (pc = "save_returned") =>
          /\ Len(report_runs) = Len(saved_files)
          /\ Len(saved_files) = Len(json_errors)
          /\ summarize_runs = 1
    /\ (pc = "save_failed") =>
          /\ report_runs = << >>
          /\ summarize_runs = 0

\* three files or more, the renderer timed out on the first and failed on the second,
\* and the run went on to the last file and to the summarizer
TimeoutAndFailureBeforeLastFile ==
    /\ pc = "save_returned"
    /\ Len(saved_files) >= 3
    /\ report_runs[1].outcome = "timeout"
    /\ report_runs[2].outcome \in {"failed", "error", "not_found"}
    /\ report_runs[Len(saved_files)].launched
    /\ summarize_runs = 1

\* C17: when the working directory holds one or more folders with a log, the batch
\* runs to its summary, a folder whose processing fails counts as a failure, and
\* success_count + fail_count is the number of folders found (SpecBatch)
BatchCountsEveryFolderFound ==
    (pc \in {"batch_raised", "batch_returned", "batch_done"}) =>
        LET found == FindMonkeyLogsFolders(listing)
        IN  found # << >> =>
                /\ pc = "batch_done"
                /\ monkey_folders = found
                /\ success_count + fail_count = Len(found)
                /\ fail_count = Cardinality({k \in 1..Len(found) : found[k].kind # "ok"})

\* the relation of C21 between two records of the catalogue: at most 5 seconds apart
\* when both timestamps hold a date, related processes, and a shared exception type,
\* a message that holds the other, a shared method among the first three of each, or
\* two shared stack classes
RelatedAsStated(a, b) ==
    LET gap == IF a.timestamp.sec >= b.timestamp.sec
               THEN a.timestamp.sec - b.timestamp.sec
               ELSE b.timestamp.sec - a.timestamp.sec
        HoldsDate(e) == e.timestamp.fmt \in {"iso", "local"}
        p1 == a.processName
        p2 == b.processName
        same_app == /\ Len(ProcessParts(p1)) >= 3
                    /\ Len(ProcessParts(p2)) >= 3
                    /\ \A n \in 1..3 : ProcessParts(p1)[n] = ProcessParts(p2)[n]
        processes == /\ p1 # "" /\ p2 # ""
                     /\ (p1 = p2 \/ ProcessContains(p1, p2) \/ ProcessContains(p2, p1)
                           \/ same_app)
        lines(e) == ContextLines(e)
        types(e) == UNION {Range(LineExceptionTypes(lines(e)[n])) : n \in 1..Len(lines(e))}
        messages(e) == UNION {Range(LineErrorMessages(lines(e)[n])) : n \in 1..Len(lines(e))}
        frames(e) == {n \in 1..Len(lines(e)) : LineMethods(lines(e)[n]) # << >>}
        first_three(e) == {n \in frames(e) : Cardinality({k \in frames(e) : k < n}) < 3}
        methods(e) == UNION {Range(LineMethods(lines(e)[n])) : n \in first_three(e)}
        classes(e) == UNION {Range(LineStackClasses(lines(e)[n])) : n \in 1..Len(lines(e))}
        features == \/ types(a) \cap types(b) # {}
                    \/ \E m1 \in messages(a), m2 \in messages(b) :
                          IsSubstring(m1, m2) \/ IsSubstring(m2, m1)
                    \/ methods(a) \cap methods(b) # {}
    IN  /\ (HoldsDate(a) /\ HoldsDate(b)) => gap <= 5
        /\ processes
        /\ (features \/ Cardinality(classes(a) \cap classes(b)) >= 2)

\* C21: a record joins the chain of the earliest record exactly when the two are at
\* most 5 seconds apart or one of the timestamps holds no date, their processes are
\* related and they share a feature or two stack classes; more than 5 seconds apart
\* or with unrelated processes it does not join, whatever they share (SpecRelated)
RelatedIsWindowProcessAndFeatures ==
    (pc = "correlated" /\ sorted_errors # << >>) =>
        \A j \in 2..Len(sorted_errors) :
            (sorted_errors[j] \in Range(error_chains[1]))
                <=> RelatedAsStated(sorted_errors[1], sorted_errors[j])

\* a record whose timestamp holds no date joined the chain of a record of another,
\* related process through two shared stack classes alone: they share no exception
\* type, no message and none of their first three methods
JoinedWithoutDateByTwoSharedClasses ==
    /\ pc = "correlated"
    /\ Len(sorted_errors) = 2
    /\ Len(error_chains) = 1
    /\ sorted_errors[1].timestamp = IsoTs(2)
    /\ sorted_errors[2].timestamp = InvalidTs(9)
    /\ sorted_errors[1].processName = ProcApp
    /\ sorted_errors[2].processName = ProcSvc
    /\ ContextLines(sorted_errors[1]) = <<LFrameS, LThird>>
    /\ ContextLines(sorted_errors[2]) = <<LNoise, LNoise, LNoise, LFrameS, LThird>>

\* C23: in every deduplication group first_seen is the earliest and last_seen the
\* latest timestamp of the records merged into it, so first_seen <= last_seen, in
\* whatever order the records were assembled (SpecRecords)
SeenBoundsTheGroup ==
    (pc = "deduplicated") =>
        \A k \in 1..Len(json_errors) :
            LET group == json_errors[k].deduplication[1]
                members == {i \in 1..Len(assembled) :
                               CalculateStackSignature(assembled[i]) = group.signature}
            IN  /\ \A i \in members : group.first_seen.sec <= assembled[i].timestamp.sec
                /\ \A i \in members : assembled[i].timestamp.sec <= group.last_seen.sec
                /\ group.first_seen.sec <= group.last_seen.sec

\* C24: the context of the record made for the k-th crash marker of the log is the
\* window that starts at the line of that marker (Spec)
EachCrashWindowStartsAtItsMarker ==
    (pc = "analyzed") =>
        LET ls == SplitLines(monkey_log)
            IsMarker(k) == CrashMatches(monkey_log[k]) # << >>
            markers == SelectSeq([k \in 1..Len(monkey_log) |-> k], IsMarker)
            crashes == analysis_results.crashes
        IN  Len(crashes) = Len(markers) =>
                \A k \in 1..Len(crashes) :
                    crashes[k].context = ContextLinesFrom(ls, markers[k], << >>)

\* the place in the assembled records of the first record with the signature of e
Discovery(e) ==
    LET members == {i \in 1..Len(assembled) :
                       CalculateStackSignature(assembled[i]) = e.deduplication[1].signature}
    IN  CHOOSE i \in members : \A m \in members : i <= m

\* C26: the catalogue returned without correlation is ordered by total score, highest
\* first; records of equal score are ordered by occurrences, highest first, and those
\* of equal occurrences too by the first discovery of their signature (SpecRecords)
ReturnedOrderIsScoreThenDedupOrder ==
    (pc = "returned") =>
        \A i \in 1..Len(json_errors) : \A j \in (i + 1)..Len(json_errors) :
            LET a == json_errors[i]
                b == json_errors[j]
            IN  /\ a.severity[1].total_score >= b.severity[1].total_score
                /\ a.severity[1].total_score = b.severity[1].total_score =>
                      /\ a.deduplication[1].occurrences >= b.deduplication[1].occurrences
                      /\ a.deduplication[1].occurrences = b.deduplication[1].occurrences
                            => Discovery(a) < Discovery(b)

\* three returned records: the first was discovered last and moved ahead by its score,
\* the other two tie in score and occurrences and kept their order of discovery
TieKeptBehindALaterHigherScore ==
    /\ pc = "returned"
    /\ Len(json_errors) = 3
    /\ Discovery(json_errors[1]) > Discovery(json_errors[3])
    /\ json_errors[1].severity[1].total_score > json_errors[2].severity[1].total_score
    /\ json_errors[2].severity[1].total_score = json_errors[3].severity[1].total_score
    /\ json_errors[2].deduplication[1].occurrences
           = json_errors[3].deduplication[1].occurrences
    /\ Discovery(json_errors[2]) < Discovery(json_errors[3])

\* the chains as _build_error_chains returned them, the anchor of each at its head
BuiltChains == BuildErrorChains(sorted_errors)

\* the place of a record in the sorted input of _build_error_chains
SortedIndex(e) == CHOOSE i \in 1..Len(sorted_errors) : sorted_errors[i] = e

\* C25: a record is in the chain of the first anchor, in the order of the sorted
\* input, that precedes it and is related to it, and opens a chain of its own when no
\* such anchor exists; its relation to other members of a chain plays no part
\* (SpecRecords)
MembershipIsDecidedByTheAnchor ==
    (pc = "correlated") =>
        \A j \in 1..Len(sorted_errors) :
            LET b == sorted_errors[j]
                Takes(c) == /\ SortedIndex(BuiltChains[c][1]) < j
                            /\ IsRelatedError(BuiltChains[c][1], b)
                takers == {c \in 1..Len(BuiltChains) : Takes(c)}
                home == CHOOSE c \in 1..Len(BuiltChains) : b \in Range(BuiltChains[c])
            IN  IF takers = {} THEN BuiltChains[home][1] = b
                ELSE home = CHOOSE c \in takers : \A d \in takers : c <= d

\* three records: the second joined the chain of the first, and the third, related to
\* the second but not to the first, opened its own chain
RelatedToMemberButNotToAnchor ==
    /\ pc = "correlated"
    /\ Len(sorted_errors) = 3
    /\ BuiltChains = <<<<sorted_errors[1], sorted_errors[2]>>, <<sorted_errors[3]>>>>
    /\ IsRelatedError(sorted_errors[2], sorted_errors[3])
    /\ ~IsRelatedError(sorted_errors[1], sorted_errors[3])

\* C29: in every chain any two members are at most 5 seconds apart, and the record
\* that opened the chain, its anchor, is the earliest of them (SpecRecords)
ChainSpansFiveSecondsFromItsAnchor ==
    (pc = "correlated") =>
        \A c \in 1..Len(BuiltChains) :
            LET chain == BuiltChains[c]
            IN  /\ \A m \in 1..Len(chain) :
                      chain[1].timestamp.sec <= chain[m].timestamp.sec
                /\ \A m \in 1..Len(chain) : \A n \in 1..Len(chain) :
                      chain[m].timestamp.sec - chain[n].timestamp.sec <= 5

\* a chain of three whose members lie 0, 2 and 5 seconds after the anchor
ChainOfThreeAcrossFiveSeconds ==
    /\ pc = "correlated"
    /\ Len(BuiltChains) = 1
    /\ Len(BuiltChains[1]) = 3
    /\ BuiltChains[1][2].timestamp.sec = BuiltChains[1][1].timestamp.sec + 2
    /\ BuiltChains[1][3].timestamp.sec = BuiltChains[1][1].timestamp.sec + 5

\* C28: the category bounds the priority: a record of category exception is never
\* CRITICAL and a record of category crash is never LOW (SpecScore)
CategoryBoundsPriority ==
    (pc = "prioritized") =>
        \A k \in 1..Len(json_errors) :
            /\ json_errors[k].category = "exception"
                  => json_errors[k].severity[1].priority # "CRITICAL"
            /\ json_errors[k].category = "crash"
                  => json_errors[k].severity[1].priority # "LOW"

\* an exception of a main process with a critical module, a blocking pattern and ten
\* occurrences or more: every other sub-score is 20, and the priority is HIGH
ExceptionAtItsHighestIsHigh ==
    /\ pc = "prioritized"
    /\ json_errors[1].category = "exception"
    /\ json_errors[1].severity[1].details.impact_score = 20
    /\ json_errors[1].severity[1].details.frequency_score = 20
    /\ json_errors[1].severity[1].details.user_impact_score = 20
    /\ json_errors[1].severity[1].total_score = 75
    /\ json_errors[1].severity[1].priority = "HIGH"

\* C30: the generic suggestion is returned only for a record whose pattern is UNKNOWN:
\* each of the six patterns has a list of its own (SpecRootCause)
GenericSuggestionOnlyForUnknown ==
    (pc = "located") =>
        \A k \in 1..Len(json_errors) :
            LET root == json_errors[k].rootCause[1]
            IN  GenericSuggestion \in Range(root.fix_suggestions)
                    => root.error_pattern.id = "UNKNOWN"

\* C22: with an empty log every step of the run leaves the catalogue empty, no file is
\* saved and the renderer is not called; the run ends in the normal return of
\* save_json_report, after one call of the summarizer (SpecRun)
EmptyLogRunsToAnEmptyCatalogue ==
    (monkey_log = << >>) =>
        /\ analysis_results = [crashes |-> << >>, anrs |-> << >>, exceptions |-> << >>]
        /\ assembled = << >>
        /\ json_errors = << >>
        /\ error_chains = << >>
        /\ saved_files = << >>
        /\ report_runs = << >>
        /\ pc # "save_failed"
        /\ summarize_runs = (IF pc = "save_returned" THEN 1 ELSE 0)

\* the run on the empty log has returned from save_json_report with nothing saved
EmptyLogRunReturned ==
    /\ monkey_log = << >>
    /\ pc = "save_returned"
    /\ json_errors = << >>
    /\ saved_files = << >>
    /\ summarize_runs = 1

\* C27: the catalogue generated after two calls of analyze_monkey_log holds the groups
\* and the occurrence counts of the catalogue after one call (SpecRun)
SecondAnalysisKeepsTheCounts ==
    (pc = "deduplicated") =>
        LET once == AssembleErrors(
                        Analyzed([crashes |-> << >>, anrs |-> << >>, exceptions |-> << >>],
                                 monkey_log,
                                 [k \in 1..Iterations(monkey_log) |-> NowStart]))
            signatures == {CalculateStackSignature(once[i]) : i \in 1..Len(once)}
        IN  /\ {json_errors[k].deduplication[1].signature : k \in 1..Len(json_errors)}
                   = signatures
            /\ \A k \in 1..Len(json_errors) :
                  json_errors[k].deduplication[1].occurrences
                      = GroupCount(once, json_errors[k].deduplication[1].signature)

====
